---- MODULE Spec2Model ----
(***************************************************************************)
(* Crime forecasting and risk-scoring engine of the E-Responde admin       *)
(* dashboard: the monthly Trend Forecaster (generateForecast), the         *)
(* Pattern-Based Daily Forecaster (generateCrimeForecast), the Insight     *)
(* Synthesizer (generateForecastInsights) and the Spatial Density          *)
(* Aggregator (getFilteredReports / createHeatmapData).                    *)
(*                                                                         *)
(* Numbers.  JavaScript numbers are modelled by exact arithmetic:          *)
(*   - a real-valued quantity is a rational <<num, den>> with den > 0;     *)
(*   - Math.round(x) is floor(x + 1/2); where x is computed from fractions *)
(*     no double represents, a real value of exactly k + 1/2 may reach     *)
(*     Math.round just below k + 1/2: the variable halfUp, fixed for a     *)
(*     run, says whether such a value rounds to k + 1 or to k;             *)
(*   - 1.96 * Math.sqrt(v) is never evaluated: only its rounding is        *)
(*     needed, and that is decided by comparing squares of integers;       *)
(*   - a coordinate is an integer number of 1e-5 degrees, an intensity an  *)
(*     integer number of hundredths.                                       *)
(* Time.  A timestamp is an integer number of hours since 2025-01-01T00:00 *)
(* (a Wednesday); local time and UTC coincide.                             *)
(***************************************************************************)
EXTENDS Integers, Sequences, FiniteSets, TLC

VARIABLES
    historicalData,   \* generateForecast: the monthly counts handed in
    months,           \* generateForecast: the horizon
    forecastResult,   \* generateForecast: the value returned (NoResult before the call)
    halfUp,           \* how a double that is exactly k + 1/2 in real arithmetic rounds
    now,              \* the clock, in hours since the epoch
    reports,          \* Analytics state: the reports loaded for the heat map
    selectedCrimeTypeHeatmap,  \* Analytics state: the category filter ("" = all types)
    timeRange,        \* Analytics state: "7", "30", "90" or "all"
    intensity,        \* Analytics state: the intensity dial, 1..10
    locationGroups,   \* createHeatmapData: the Map of groups of the last render
    heatmapPoints,    \* createHeatmapData: the points returned by the last render
    crimeHistory,     \* generateCrimeForecast: the records handed in (timestamps)
    forecastPeriod,   \* Analytics state: "1week", "2weeks" or "1month"
    randomSeed,       \* the state of Math.random
    forecastData,     \* Analytics state: the DailyForecasts
    forecastInsights, \* Analytics state: the ForecastInsight
    allReports,       \* forecasting service: Object.values of the record snapshot
    serviceCrimeType, \* forecasting service: the parameter crimeType
    serviceLocation,  \* forecasting service: the parameter location
    fetched,          \* fetchHistoricalData: the last outcome (NoOutcome before a call)
    response,         \* performLocalForecasting: the last outcome
    rawData,          \* fetchCrimeForecast: the records of the snapshot it reads
    forecastCrimeType,  \* Analytics state: the category of the forecast ("" = all)
    forecastLoading,  \* Analytics state
    forecastError,    \* Analytics state: null or the message of the last failure
    request,          \* fetchCrimeForecast: where the running request stands
    mlOutcome,        \* what the ML service answered to the running request
    users,            \* UserAccountManagement state: the listed users
    loading,          \* UserAccountManagement state
    error,            \* UserAccountManagement state: '' or the message shown
    totalUsers,       \* UserAccountManagement state
    actionLoading,    \* UserAccountManagement state: null or a user id
    accounts,         \* the record store: 'civilian/civilian account', by user id
    calls,            \* the fetchUsers and handleSuspendUser calls at their await,
                      \* oldest first
    started,          \* the number of calls started so far; the clock of the page
    inOrder,          \* the store has handled and answered the calls oldest first
    failures          \* a call has ended in its catch block

trendVars == <<historicalData, months, forecastResult>>
heatVars == <<reports, selectedCrimeTypeHeatmap, timeRange, intensity,
              locationGroups, heatmapPoints>>
dailyVars == <<crimeHistory, forecastPeriod, randomSeed, forecastData,
               forecastInsights>>
serviceVars == <<allReports, serviceCrimeType, serviceLocation, fetched, response>>
requestVars == <<rawData, forecastCrimeType, forecastLoading, forecastError, request,
                 mlOutcome>>
accountVars == <<users, loading, error, totalUsers, actionLoading, accounts, calls,
                 started, inOrder, failures>>
vars == <<historicalData, months, forecastResult, halfUp, now, reports,
          selectedCrimeTypeHeatmap, timeRange, intensity, locationGroups,
          heatmapPoints, crimeHistory, forecastPeriod, randomSeed, forecastData,
          forecastInsights, allReports, serviceCrimeType, serviceLocation, fetched,
          response,
          rawData, forecastCrimeType, forecastLoading, forecastError, request,
          mlOutcome,
          users, loading, error, totalUsers, actionLoading, accounts, calls, started,
          inOrder, failures>>

-----------------------------------------------------------------------------
(* Bounds of the model *)
MaxLen == 4        \* longest monthly series of SpecTrend
MaxCount == 3      \* largest monthly count of SpecTrend
MaxShortCount == 5 \* largest monthly count of a series shorter than 3 in SpecTrend
MaxMonths == 3     \* largest horizon
MaxLinLen == 6     \* longest perfectly linear series of SpecLinear
MaxIntercept == 3  \* largest first value of a perfectly linear series
MaxSlope == 2      \* largest |slope| of a perfectly linear series
MaxReports == 3    \* most reports loaded in SpecHeat
MaxDense == 11     \* most reports loaded in SpecHeatDense
MaxRun == 6        \* longest run of equal timestamps in a history of SpecDaily
MaxDays == 10      \* longest forecast of SpecInsights
MaxStored == 3     \* most stored reports in the snapshot of SpecAggregate
MaxPlaced == 2     \* most reports loaded for the heat map in SpecEngine
MaxExtra == 1      \* most records beside the nine recent thefts in SpecRequest
MaxMore == 2       \* most records after the first ten of a history of SpecSynth
MaxWide == 4       \* longest series of SpecBand

-----------------------------------------------------------------------------
(* Arithmetic helpers *)

Max(a, b) == IF a >= b THEN a ELSE b
Min(a, b) == IF a <= b THEN a ELSE b
Abs(a) == IF a < 0 THEN -a ELSE a

RECURSIVE GCD(_, _)
GCD(a, b) == IF b = 0 THEN a ELSE GCD(b, a % b)

\* The rational n/d (d # 0) in lowest terms with a positive denominator.
Rat(n, d) ==
    LET g == GCD(Abs(n), Abs(d))
        s == IF d < 0 THEN -1 ELSE 1
    IN  <<s * (n \div g), s * (d \div g)>>

RMul(p, q) ==
    LET g1 == GCD(Abs(p[1]), q[2])
        g2 == GCD(Abs(q[1]), p[2])
    IN  Rat((p[1] \div g1) * (q[1] \div g2), (p[2] \div g2) * (q[2] \div g1))

\* p > q for rationals with positive denominators
RGt(p, q) == p[1] * q[2] > q[1] * p[2]

\* Math.round of the rational n/d, d > 0: floor(n/d + 1/2).  Integers (d divides n)
\* are exact in doubles; an exact half follows halfUp.
MathRound(n, d) ==
    IF (2 * n) % (2 * d) = d /\ ~halfUp
    THEN (2 * n - d) \div (2 * d)
    ELSE (2 * n + d) \div (2 * d)

RECURSIVE SumSeq(_)
SumSeq(s) == IF s = <<>> THEN 0 ELSE Head(s) + SumSeq(Tail(s))

\* All sequences over S of length 0..n
SeqsUpTo(S, n) == UNION {[1..k -> S] : k \in 0..n}

-----------------------------------------------------------------------------
(* Trend Forecaster: generateForecast *)

\* x = [0, 1, ..., n-1] and the sums of the regression
SumX(n) == SumSeq([i \in 1..n |-> i - 1])
SumXX(n) == SumSeq([i \in 1..n |-> (i - 1) * (i - 1)])
SumY(y) == SumSeq(y)
SumXY(y) == SumSeq([i \in 1..Len(y) |-> (i - 1) * y[i]])
SumYY(y) == SumSeq([i \in 1..Len(y) |-> y[i] * y[i]])

\* slope = SlopeNum / SlopeDen; SlopeDen > 0 for n >= 2
SlopeNum(y) == Len(y) * SumXY(y) - SumX(Len(y)) * SumY(y)
SlopeDen(y) == Len(y) * SumXX(Len(y)) - SumX(Len(y)) * SumX(Len(y))

\* slope * xValue + intercept as the fraction LineNum / LineDen, where
\* intercept = (sumY - slope * sumX) / n
LineNum(y, xValue) ==
    Len(y) * SlopeNum(y) * xValue + SlopeDen(y) * SumY(y) - SlopeNum(y) * SumX(Len(y))
LineDen(y) == Len(y) * SlopeDen(y)

\* (variant: the spread of the residuals about the fitted line instead of the
\* spread of the counts about their mean; the same scale as VarN2)
ResidualVarN2(y) ==
    LET r(i) == LineDen(y) * y[i] - LineNum(y, i - 1)
    IN  SumSeq([i \in 1..Len(y) |-> r(i) * r(i)])
            \div (Len(y) * SlopeDen(y) * SlopeDen(y))

\* n^2 * variance = n * sum(y^2) - (sum y)^2, so stdDev = sqrt(VarN2(y)) / n
VarN2(y) == Len(y) * SumYY(y) - SumY(y) * SumY(y)

\* confidence = 1.96 * stdDev.  For an integer p, Math.round(p + confidence) is
\* p + k for the largest k with k - 1/2 <= confidence, that is
\* ((2k - 1) * 25 * n)^2 <= 98^2 * VarN2.
RECURSIVE RoundUpFrom(_, _)
RoundUpFrom(y, k) ==
    LET t == (2 * (k + 1) - 1) * 25 * Len(y)
    IN  IF t * t <= 9604 * VarN2(y) THEN RoundUpFrom(y, k + 1) ELSE k
ConfidenceUp(y) == RoundUpFrom(y, 0)

\* (variant: the lower offset is the upper offset)
ConfidenceDownMirrored(y) == ConfidenceUp(y)

\* Math.round(p - confidence) is p - m for the smallest m >= 0 with
\* m + 1/2 >= confidence, that is ((2m + 1) * 25 * n)^2 >= 98^2 * VarN2.
RECURSIVE RoundDownFrom(_, _)
RoundDownFrom(y, m) ==
    LET t == (2 * m + 1) * 25 * Len(y)
    IN  IF t * t >= 9604 * VarN2(y) THEN m ELSE RoundDownFrom(y, m + 1)
ConfidenceDown(y) == RoundDownFrom(y, 0)

\* (variant: no clamp at 0)
PredictedUnclamped(y, i) == MathRound(LineNum(y, Len(y) + i), LineDen(y))

\* (variant: the horizon starts one index late, xValue = n + i + 1)
PredictedLate(y, i) == Max(0, MathRound(LineNum(y, Len(y) + i + 1), LineDen(y)))

\* predicted = Math.max(0, Math.round(slope * xValue + intercept)), xValue = n + i
Predicted(y, i) == Max(0, MathRound(LineNum(y, Len(y) + i), LineDen(y)))

NaN == <<0, 0>>   \* the value of 0 / 0

\* calculateRSquared: 1 - ssRes / ssTot, NaN when ssTot = 0 (then ssRes = 0 too,
\* and 0 / 0 is NaN).  Residual i is ResidualNum / LineDen.
ResidualNum(y, i) == LineDen(y) * y[i] - LineNum(y, i - 1)
SsResNum(y) == SumSeq([i \in 1..Len(y) |-> ResidualNum(y, i) * ResidualNum(y, i)])
\* n * ssTot = n * sum((y - yMean)^2) = n * sum(y^2) - (sum y)^2
SsTotN(y) == Len(y) * SumYY(y) - SumY(y) * SumY(y)
calculateRSquared(y) ==
    IF SsTotN(y) = 0
    THEN NaN
    ELSE \* ssTot = SsTotN / n;  ssRes = SsResNum / (n * SlopeDen)^2
         LET den == Len(y) * SlopeDen(y) * SlopeDen(y) * SsTotN(y)
         IN  Rat(den - SsResNum(y), den)

\* generateForecast(historicalData, months).  With fewer than 3 points the code
\* returns a bare array; otherwise an object of three arrays, trend and rSquared.
\* historicalData[historicalData.length - 1] || 0
\* (variant: the first value instead of the last)
FirstValue(y) == IF Len(y) = 0 THEN 0 ELSE y[1]

lastValue(y) == IF Len(y) = 0 THEN 0 ELSE y[Len(y)]

generateForecast(y, m) ==
    IF Len(y) < 3
    THEN [kind |-> "array",
          array |-> [i \in 1..m |-> Max(0, lastValue(y))]]
    ELSE [kind |-> "object",
          forecast |-> [i \in 1..m |-> Predicted(y, i - 1)],
          confidenceUpper |->
              [i \in 1..m |-> Max(0, Predicted(y, i - 1) + ConfidenceUp(y))],
          confidenceLower |->
              [i \in 1..m |-> Max(0, Predicted(y, i - 1) - ConfidenceDown(y))],
          trend |-> Rat(SlopeNum(y), SlopeDen(y)),
          rSquared |-> calculateRSquared(y)]

-----------------------------------------------------------------------------
(* Specification of the Trend Forecaster on arbitrary series *)

NoResult == [kind |-> "none"]   \* generateForecast has not been called yet

\* The parts of the state a specification does not use stay as constructed.
IdleTrend ==
    /\ historicalData = <<>>
    /\ months = 0
    /\ forecastResult = NoResult
IdleHeat ==
    /\ reports = <<>>
    /\ selectedCrimeTypeHeatmap = <<>>
    /\ timeRange = "30"
    /\ intensity = 5
    /\ locationGroups = <<>>
    /\ heatmapPoints = <<>>
IdleClock == now = 0
\* forecastData, forecastInsights and forecastPeriod as useState constructs them
NoInsights == [predictedCrimeCount |-> 0, riskLevel |-> "Low", peakHours |-> <<>>,
               peakDays |-> <<>>, recommendations |-> <<>>]
IdleDaily ==
    /\ crimeHistory = <<>>
    /\ forecastPeriod = "2weeks"
    /\ randomSeed = 0
    /\ forecastData = <<>>
    /\ forecastInsights = NoInsights
\* The forecasting service before any call
NoOutcome == [kind |-> "none"]
IdleService ==
    /\ allReports = <<>>
    /\ serviceCrimeType = "Theft"
    /\ serviceLocation = "Barangay 41"
    /\ fetched = NoOutcome
    /\ response = NoOutcome
\* forecastLoading, forecastError and forecastCrimeType as useState constructs them;
\* no request is running
Null == "null"
NoRequest == [at |-> "idle"]
NoAnswer == [status |-> "none", predictions |-> "none"]
IdleRequest ==
    /\ rawData = <<>>
    /\ forecastCrimeType = ""
    /\ forecastLoading = FALSE
    /\ forecastError = Null
    /\ request = NoRequest
    /\ mlOutcome = NoAnswer
\* The user page as useState constructs it, no call started
JsNull == [t |-> "null"]
IdleAccounts ==
    /\ users = <<>>
    /\ loading = TRUE
    /\ error = ""
    /\ totalUsers = 0
    /\ actionLoading = JsNull
    /\ accounts = <<>>
    /\ calls = <<>>
    /\ started = 0
    /\ inOrder = TRUE
    /\ failures = FALSE

InitTrend ==
    /\ IdleHeat /\ IdleClock /\ IdleDaily /\ IdleService /\ IdleRequest /\ IdleAccounts
    /\ historicalData \in SeqsUpTo(0..MaxCount, MaxLen) \cup SeqsUpTo(0..MaxShortCount, 2)
    /\ months \in 0..MaxMonths
    /\ forecastResult = NoResult
    /\ halfUp \in BOOLEAN

GenerateForecast ==
    /\ forecastResult.kind = "none"
    /\ forecastResult' = generateForecast(historicalData, months)
    /\ UNCHANGED <<serviceVars, requestVars, accountVars, historicalData, months, halfUp, now, heatVars, dailyVars>>

NextTrend == GenerateForecast

SpecTrend == InitTrend /\ [][NextTrend]_vars

(* Specification of the Trend Forecaster on perfectly linear series *)

LinearSeries(a, b, n) == [i \in 1..n |-> a + b * (i - 1)]

InitLinear ==
    /\ IdleHeat /\ IdleClock /\ IdleDaily /\ IdleService /\ IdleRequest /\ IdleAccounts
    /\ \E a \in 0..(MaxIntercept + MaxSlope * MaxLinLen) :
       \E b \in (0 - MaxSlope)..MaxSlope :
       \E n \in 3..MaxLinLen :
          /\ a <= MaxIntercept \/ b < 0
          /\ a + b * (n - 1) >= 0
          /\ historicalData = LinearSeries(a, b, n)
    /\ months \in 0..MaxMonths
    /\ forecastResult = NoResult
    /\ halfUp \in BOOLEAN

SpecLinear == InitLinear /\ [][NextTrend]_vars

-----------------------------------------------------------------------------
(* Claims about the Trend Forecaster *)

Called == forecastResult.kind # "none"

\* C1: for every series of length >= 3 and every horizon, generateForecast
\* returns exactly `months` points in each of forecast, confidenceUpper and
\* confidenceLower, and at every step 0 <= lower <= predicted <= upper.
C1_BandOrdered ==
    (Called /\ Len(historicalData) >= 3) =>
        /\ forecastResult.kind = "object"
        /\ Len(forecastResult.forecast) = months
        /\ Len(forecastResult.confidenceUpper) = months
        /\ Len(forecastResult.confidenceLower) = months
        /\ \A i \in 1..months :
              /\ 0 <= forecastResult.confidenceLower[i]
              /\ forecastResult.confidenceLower[i] <= forecastResult.forecast[i]
              /\ forecastResult.forecast[i] <= forecastResult.confidenceUpper[i]

\* A falling series whose fitted line goes below zero inside the horizon, and a
\* step with a band that is strictly wider than the point.
C1_Witness ==
    /\ Called
    /\ Len(historicalData) >= 3
    /\ months = MaxMonths
    /\ historicalData[1] > historicalData[Len(historicalData)]
    /\ forecastResult.forecast[months] = 0
    /\ forecastResult.confidenceLower[1] < forecastResult.forecast[1]
    /\ forecastResult.forecast[1] < forecastResult.confidenceUpper[1]

\* C2: with fewer than 3 points (the empty series included) the forecast is the
\* last known value, 0 if there is none, once per horizon step.
C2_FlatContinuation ==
    (Called /\ Len(historicalData) < 3) =>
        /\ forecastResult.kind = "array"
        /\ Len(forecastResult.array) = months
        /\ \A i \in 1..months :
              forecastResult.array[i] =
                  IF historicalData = <<>> THEN 0
                  ELSE historicalData[Len(historicalData)]

\* The example of the claim: [5] with horizon 3 gives [5, 5, 5].
C2_Witness ==
    /\ historicalData = <<5>>
    /\ months = 3
    /\ Called
    /\ forecastResult.array = <<5, 5, 5>>

\* A perfectly linear series of length >= 3: y[i] = y[1] + (i - 1) * (y[2] - y[1])
IsLinear(y) ==
    /\ Len(y) >= 3
    /\ \A i \in 1..Len(y) : y[i] = y[1] + (i - 1) * (y[2] - y[1])
LineSlope(y) == y[2] - y[1]
\* the value of the line at horizon step i (i = 1 is the first forecast month)
LineAt(y, i) == y[1] + (Len(y) + i - 1) * LineSlope(y)

\* C3 as stated: for a perfectly linear series the trend is the line's slope,
\* R^2 is 1 and the forecast is the exact continuation of the line.
C3_AsStated ==
    (Called /\ IsLinear(historicalData)) =>
        /\ forecastResult.trend = <<LineSlope(historicalData), 1>>
        /\ forecastResult.rSquared = <<1, 1>>
        /\ \A i \in 1..months :
              forecastResult.forecast[i] = LineAt(historicalData, i)

\* C3 amended: the trend is the line's slope; R^2 is 1 unless the series is
\* constant, where it is NaN (0 / 0); the forecast is the continuation of the
\* line, clamped below at 0.
C3_LinearFit ==
    (Called /\ IsLinear(historicalData)) =>
        /\ forecastResult.trend = <<LineSlope(historicalData), 1>>
        /\ forecastResult.rSquared =
              IF LineSlope(historicalData) = 0 THEN <<0, 0>> ELSE <<1, 1>>
        /\ Len(forecastResult.forecast) = months
        /\ \A i \in 1..months :
              forecastResult.forecast[i] =
                  IF LineAt(historicalData, i) < 0 THEN 0
                  ELSE LineAt(historicalData, i)

\* The example of the claim: [1..6] with horizon 3 gives slope 1, R^2 1, [7, 8, 9].
C3_Witness ==
    /\ historicalData = <<1, 2, 3, 4, 5, 6>>
    /\ months = 3
    /\ Called
    /\ forecastResult.trend = <<1, 1>>
    /\ forecastResult.rSquared = <<1, 1>>
    /\ forecastResult.forecast = <<7, 8, 9>>

\* C4 as stated: for a perfectly linear series the band has zero width.
C4_AsStated ==
    (Called /\ IsLinear(historicalData)) =>
        \A i \in 1..months :
            /\ forecastResult.confidenceUpper[i] = forecastResult.forecast[i]
            /\ forecastResult.confidenceLower[i] = forecastResult.forecast[i]

\* n^2 times the population variance of the counts about their mean
SpreadOfCounts(y) ==
    Len(y) * SumSeq([i \in 1..Len(y) |-> y[i] * y[i]]) - SumSeq(y) * SumSeq(y)

\* k = Math.round(1.96 * sqrt(spread) / n), that is k - 1/2 <= 1.96 sd < k + 1/2
IsRoundedHalfWidth(k, y) ==
    LET lo == (2 * k - 1) * 25 * Len(y)
        hi == (2 * k + 1) * 25 * Len(y)
    IN  /\ k >= 0
        /\ k >= 1 => lo * lo <= 9604 * SpreadOfCounts(y)
        /\ hi * hi > 9604 * SpreadOfCounts(y)

\* C4 amended: the half-width is 1.96 times the standard deviation of the counts
\* about their mean (not of the residuals): upper - predicted is that half-width
\* rounded, at every step; on a perfectly linear series the band has zero width
\* if and only if the series is constant, and otherwise upper > predicted at
\* every step.
C4_BandFromCounts ==
    (Called /\ IsLinear(historicalData)) =>
        /\ \A i \in 1..months :
              /\ IsRoundedHalfWidth(
                     forecastResult.confidenceUpper[i] - forecastResult.forecast[i],
                     historicalData)
              /\ LineSlope(historicalData) # 0 =>
                     forecastResult.confidenceUpper[i] > forecastResult.forecast[i]
              /\ LineSlope(historicalData) = 0 =>
                     /\ forecastResult.confidenceUpper[i] = forecastResult.forecast[i]
                     /\ forecastResult.confidenceLower[i] = forecastResult.forecast[i]

\* The example of the claim: on [1..6] the band is [4, 10], [5, 11], [6, 12].
C4_Witness ==
    /\ historicalData = <<1, 2, 3, 4, 5, 6>>
    /\ months = 3
    /\ Called
    /\ forecastResult.confidenceUpper = <<10, 11, 12>>
    /\ forecastResult.confidenceLower = <<4, 5, 6>>

-----------------------------------------------------------------------------
(* JavaScript values read from the record store *)

\* A field of a stored record: absent, a number, a string holding a number, or
\* any other non-empty string.  v is the number (coordinates in 1e-5 degrees,
\* times in hours since the epoch).
Undef == [t |-> "undef", v |-> 0]
Num(v) == [t |-> "num", v |-> v]
NumStr(v) == [t |-> "str", v |-> v]
Text == [t |-> "text", v |-> 0]

Truthy(x) == (x.t = "num" /\ x.v # 0) \/ x.t = "str" \/ x.t = "text"
Or(a, b) == IF Truthy(a) THEN a ELSE b          \* a || b

\* parseFloat(x), isNaN(parseFloat(x))
parseFloat(x) == x.v
IsNaN(x) == x.t \notin {"num", "str"}

\* A string is the sequence of its characters.
Upper == <<"A","B","C","D","E","F","G","H","I","J","K","L","M",
           "N","O","P","Q","R","S","T","U","V","W","X","Y","Z">>
Lower == <<"a","b","c","d","e","f","g","h","i","j","k","l","m",
           "n","o","p","q","r","s","t","u","v","w","x","y","z">>
Characters == {Upper[i] : i \in 1..26} \cup {Lower[i] : i \in 1..26} \cup {" ", "-"}
LowerChar ==
    [c \in Characters |->
        IF \E i \in 1..26 : Upper[i] = c
        THEN Lower[CHOOSE i \in 1..26 : Upper[i] = c]
        ELSE c]
toLowerCase(str) == [i \in 1..Len(str) |-> LowerChar[str[i]]]
includes(str, part) ==
    \E i \in 0..(Len(str) - Len(part)) :
        \A j \in 1..Len(part) : str[i + j] = part[j]

-----------------------------------------------------------------------------
(* Spatial Density Aggregator: fetchHeatmapData, getFilteredReports,
   createHeatmapData *)

NoLocation == [present |-> FALSE, latitude |-> Undef, longitude |-> Undef,
               lat |-> Undef, lng |-> Undef]
Location(latitude, longitude) ==
    [present |-> TRUE, latitude |-> latitude, longitude |-> longitude,
     lat |-> Undef, lng |-> Undef]

\* fetchHeatmapData / the onValue listener: one stored record `data` under key
\* `key` becomes a report whose location is data.location, or is built from the
\* record's own latitude / lat and longitude / lng.
ToReport(key, data) ==
    [id |-> key,
     crimeType |-> data.crimeType,
     dateTime |-> data.dateTime,
     createdAt |-> data.createdAt,
     latitude |-> data.latitude, longitude |-> data.longitude,
     lat |-> data.lat, lng |-> data.lng,
     location |->
        IF data.location.present
        THEN data.location
        ELSE Location(Or(data.latitude, data.lat), Or(data.longitude, data.lng))]

\* The category test of getFilteredReports; crimeType is "" when the record has none.
MatchesCrimeType(report, selected) ==
    LET reportCrimeType == toLowerCase(report.crimeType)
        selectedType == toLowerCase(selected)
        W(word) == includes(reportCrimeType, word)
    IN  \/ reportCrimeType = selectedType
        \/ includes(reportCrimeType, selectedType)
        \/ /\ selectedType = <<"b","r","e","a","k","i","n","g"," ","a","n","d"," ",
                               "e","n","t","e","r","i","n","g">>
           /\ W(<<"b","r","e","a","k","i","n","g">>)
                \/ W(<<"b","u","r","g","l","a","r","y">>)
        \/ /\ selectedType = <<"v","e","h","i","c","l","e"," ","t","h","e","f","t">>
           /\ W(<<"v","e","h","i","c","l","e">>) \/ W(<<"c","a","r">>)
        \/ /\ selectedType = <<"d","r","u","g","-","r","e","l","a","t","e","d">>
           /\ W(<<"d","r","u","g">>)
        \/ /\ selectedType = <<"d","o","m","e","s","t","i","c"," ",
                               "v","i","o","l","e","n","c","e">>
           /\ W(<<"d","o","m","e","s","t","i","c">>)
                \/ W(<<"v","i","o","l","e","n","c","e">>)

\* The time test of getFilteredReports: new Date(dateTime || createdAt) >= cutoff,
\* false for an invalid date.  parseInt(timeRange) is `days`.
ParseDays(range) == CASE range = "7" -> 7 [] range = "30" -> 30 [] range = "90" -> 90
WithinRange(report, range, clock) ==
    LET stamp == Or(report.dateTime, report.createdAt)
    IN  /\ ~IsNaN(stamp)
        /\ parseFloat(stamp) >= clock - 24 * ParseDays(range)

HasCoordinates(report) ==
    /\ report.location.present
    /\ Truthy(report.location.latitude)
    /\ Truthy(report.location.longitude)

getFilteredReports(all, selected, range, clock) ==
    LET keep(report) ==
            /\ HasCoordinates(report)
            /\ selected # <<>> => MatchesCrimeType(report, selected)
            /\ range # "all" => WithinRange(report, range, clock)
    IN  SelectSeq(all, keep)

\* lat and lng as createHeatmapData reads them
ReadLat(report) ==
    IF report.location.present
    THEN Or(report.location.latitude, report.location.lat)
    ELSE Or(report.latitude, report.lat)
ReadLng(report) ==
    IF report.location.present
    THEN Or(report.location.longitude, report.location.lng)
    ELSE Or(report.longitude, report.lng)

\* (variant: the bounds test without the upper limits)
InBoundsLowerOnly(lat, lng) == ~(lat < 400000 \/ lng < 11600000)

\* not (lat < 4 || lat > 22 || lng < 116 || lng > 127)
InBounds(lat, lng) ==
    ~(lat < 400000 \/ lat > 2200000 \/ lng < 11600000 \/ lng > 12700000)

\* The report passes both validations of createHeatmapData.
ValidCoordinates(report) ==
    /\ ~IsNaN(ReadLat(report))
    /\ ~IsNaN(ReadLng(report))
    /\ parseFloat(ReadLat(report)) # 0
    /\ parseFloat(ReadLng(report)) # 0
    /\ InBounds(parseFloat(ReadLat(report)), parseFloat(ReadLng(report)))

\* x.toFixed(4) of a positive coordinate, as a number of 1e-4 degrees; a value
\* that ends in 5 at the fifth decimal rounds as its double happens to lie.
ToFixed4(v) ==
    IF v % 10 = 5 /\ ~halfUp THEN v \div 10 ELSE (v + 5) \div 10

\* (variant: the key is built from the coordinates as read, without rounding)
GroupKeyRaw(report) ==
    <<parseFloat(ReadLat(report)), parseFloat(ReadLng(report))>>

\* key = `${lat.toFixed(4)},${lng.toFixed(4)}`
GroupKey(report) ==
    <<ToFixed4(parseFloat(ReadLat(report))), ToFixed4(parseFloat(ReadLng(report)))>>

\* One step of the forEach over the filtered reports: the Map after `report`.
AddToGroups(groups, report) ==
    IF ~ValidCoordinates(report)
    THEN groups
    ELSE LET key == GroupKey(report)
         IN  IF \E g \in 1..Len(groups) : groups[g].key = key
             THEN [g \in 1..Len(groups) |->
                     IF groups[g].key = key
                     THEN [groups[g] EXCEPT !.count = @ + 1,
                                            !.reports = Append(@, report.id)]
                     ELSE groups[g]]
             ELSE Append(groups, [key |-> key,
                                  lat |-> parseFloat(ReadLat(report)),
                                  lng |-> parseFloat(ReadLng(report)),
                                  count |-> 1,
                                  reports |-> <<report.id>>])

RECURSIVE GroupReports(_, _)
GroupReports(groups, filtered) ==
    IF filtered = <<>> THEN groups
    ELSE GroupReports(AddToGroups(groups, Head(filtered)), Tail(filtered))

\* (variant: the base intensity is not clamped)
FinalIntensityUnclampedBase(count, dial) == Min(100, count * dial)

\* finalIntensity = min(1, min(1, count / 10) * (intensity / 10)), in hundredths
FinalIntensity(count, dial) == Min(100, Min(10, count) * dial)

\* The groups and the points of createHeatmapData
LocationGroupsOf(all, selected, range, clock) ==
    GroupReports(<<>>, getFilteredReports(all, selected, range, clock))
PointsOf(groups, dial) ==
    [g \in 1..Len(groups) |->
        <<groups[g].lat, groups[g].lng, FinalIntensity(groups[g].count, dial)>>]
createHeatmapData(all, selected, range, clock, dial) ==
    PointsOf(LocationGroupsOf(all, selected, range, clock), dial)

-----------------------------------------------------------------------------
(* Specification of the heat map: reports arrive, the filters change, and every
   change renders the map again *)

\* Stored records the specifications draw from; `clock` is the time of the run.
Stored(location, latitude, longitude, crimeType, dateTime, createdAt) ==
    [location |-> location, latitude |-> latitude, longitude |-> longitude,
     lat |-> Undef, lng |-> Undef, crimeType |-> crimeType,
     dateTime |-> dateTime, createdAt |-> createdAt]
Theft == <<"T","h","e","f","t">>
VehicleTheft == <<"V","e","h","i","c","l","e"," ","T","h","e","f","t">>
Burglary == <<"B","u","r","g","l","a","r","y">>
BreakingAndEntering == <<"B","r","e","a","k","i","n","g"," ","a","n","d"," ",
                         "E","n","t","e","r","i","n","g">>

\* (14.60421, 120.98223), a theft of yesterday
ManilaA(clock) ==
    Stored(Location(Num(1460421), Num(12098223)), Undef, Undef,
           Theft, Num(clock - 24), Undef)
\* (14.60419, 120.98221), the same 4-decimal cell, ten days ago
ManilaB(clock) ==
    Stored(Location(Num(1460419), Num(12098221)), Undef, Undef,
           VehicleTheft, Num(clock - 240), Undef)
\* ("22", "127"), the corner of the bounding box, as strings on the record
\* itself, forty days ago by createdAt
Corner(clock) ==
    Stored(NoLocation, NumStr(2200000), NumStr(12700000),
           Burglary, Undef, Num(clock - 960))
\* (0, 0)
NullIsland(clock) ==
    Stored(Location(Num(0), Num(0)), Undef, Undef, Theft, Num(clock - 24), Undef)
\* (91, 200)
OutOfRange(clock) ==
    Stored(Location(Num(9100000), Num(20000000)), Undef, Undef,
           Theft, Num(clock - 24), Undef)
\* ("n/a", 120.98223)
NotANumber(clock) ==
    Stored(Location(Text, Num(12098223)), Undef, Undef, Theft, Num(clock - 24), Undef)
\* location: {lat, lng} without latitude / longitude
LegacyKeys(clock) ==
    Stored([present |-> TRUE, latitude |-> Undef, longitude |-> Undef,
            lat |-> Num(1460421), lng |-> Num(12098223)],
           Undef, Undef, Theft, Num(clock - 24), Undef)
HeatKinds(clock) ==
    {ManilaA(clock), ManilaB(clock), Corner(clock), NullIsland(clock),
     OutOfRange(clock), NotANumber(clock), LegacyKeys(clock)}
DenseKinds(clock) == {ManilaA(clock)}

TimeRangeOptions == {"7", "30", "90", "all"}
CrimeTypeOptions == {<<>>, Theft, BreakingAndEntering}

\* Every state change renders the component, and the render calls createHeatmapData.
Render(all, selected, range, dial) ==
    /\ locationGroups' = LocationGroupsOf(all, selected, range, now)
    /\ heatmapPoints' = PointsOf(locationGroups', dial)

InitHeat ==
    /\ IdleTrend /\ IdleDaily /\ IdleService /\ IdleRequest /\ IdleAccounts
    /\ halfUp = TRUE
    /\ now = 24 * 100
    /\ IdleHeat

\* A record is added to the store; the listener rebuilds the reports from the snapshot.
ReportAdded(kinds, most) ==
    /\ Len(reports) < most
    /\ \E data \in kinds :
          reports' = Append(reports, ToReport(Len(reports) + 1, data))
    /\ Render(reports', selectedCrimeTypeHeatmap, timeRange, intensity)
    /\ UNCHANGED <<serviceVars, requestVars, accountVars, trendVars, dailyVars, halfUp, now, selectedCrimeTypeHeatmap, timeRange, intensity>>

SetTimeRange ==
    /\ \E range \in TimeRangeOptions \ {timeRange} : timeRange' = range
    /\ Render(reports, selectedCrimeTypeHeatmap, timeRange', intensity)
    /\ UNCHANGED <<serviceVars, requestVars, accountVars, trendVars, dailyVars, halfUp, now, reports, selectedCrimeTypeHeatmap, intensity>>

SetSelectedCrimeTypeHeatmap ==
    /\ \E selected \in CrimeTypeOptions \ {selectedCrimeTypeHeatmap} :
          selectedCrimeTypeHeatmap' = selected
    /\ Render(reports, selectedCrimeTypeHeatmap', timeRange, intensity)
    /\ UNCHANGED <<serviceVars, requestVars, accountVars, trendVars, dailyVars, halfUp, now, reports, timeRange, intensity>>

SetIntensity ==
    /\ \E dial \in (1..10) \ {intensity} : intensity' = dial
    /\ Render(reports, selectedCrimeTypeHeatmap, timeRange, intensity')
    /\ UNCHANGED <<serviceVars, requestVars, accountVars, trendVars, dailyVars, halfUp, now, reports, selectedCrimeTypeHeatmap, timeRange>>

ReportAddedHeat == ReportAdded(HeatKinds(now), MaxReports)
NextHeat == ReportAddedHeat \/ SetTimeRange \/ SetSelectedCrimeTypeHeatmap
SpecHeat == InitHeat /\ [][NextHeat]_vars

\* Many reports at few places, and the dial
ReportAddedDense == ReportAdded(DenseKinds(now), MaxDense)
NextHeatDense == ReportAddedDense \/ SetIntensity
SpecHeatDense == InitHeat /\ [][NextHeatDense]_vars

-----------------------------------------------------------------------------
(* Claims about the Spatial Density Aggregator *)

\* The reports that survive the filters and both validations, by id
Survivors ==
    LET filtered == getFilteredReports(reports, selectedCrimeTypeHeatmap,
                                       timeRange, now)
    IN  {filtered[k].id : k \in {n \in 1..Len(filtered) :
                                    ValidCoordinates(filtered[n])}}

\* latitude and longitude of report i rounded to 4 decimal places
Rounded4(i) ==
    <<(reports[i].location.latitude.v + 5) \div 10,
      (reports[i].location.longitude.v + 5) \div 10>>

GroupOf(i) == {g \in 1..Len(locationGroups) :
                 \E k \in 1..Len(locationGroups[g].reports) :
                    locationGroups[g].reports[k] = i}

\* C8: two surviving records share a HeatCell if and only if their coordinates
\* are equal after rounding to 4 decimal places; there is exactly one cell per
\* distinct rounded coordinate, one point per cell, and the cell counts add up
\* to the number of surviving records.
C8_CellsByRoundedCoordinate ==
    /\ LET alive == Survivors
       IN  /\ \A i \in alive : Cardinality(GroupOf(i)) = 1
           /\ \A i, j \in alive :
                 (GroupOf(i) = GroupOf(j)) <=> (Rounded4(i) = Rounded4(j))
           /\ Len(locationGroups) = Cardinality({Rounded4(i) : i \in alive})
           /\ SumSeq([g \in 1..Len(locationGroups) |-> locationGroups[g].count])
                 = Cardinality(alive)
    /\ Len(heatmapPoints) = Len(locationGroups)
    /\ \A g \in 1..Len(locationGroups) :
          locationGroups[g].count = Len(locationGroups[g].reports)

\* (14.60421, 120.98223) and (14.60419, 120.98221) in one cell of count 2, beside
\* a second cell.
C8_Witness ==
    /\ Len(locationGroups) = 2
    /\ \E i, j \in Survivors :
          /\ reports[i].location.latitude = Num(1460421)
          /\ reports[j].location.latitude = Num(1460419)
          /\ GroupOf(i) = GroupOf(j)
          /\ \A g \in GroupOf(i) : locationGroups[g].count = 2

\* A coordinate that is missing, zero, not a number or outside the bounding box
Degenerate(report) ==
    LET la == report.location.latitude
        lo == report.location.longitude
    IN  \/ la.t = "undef" \/ lo.t = "undef"
        \/ la.t = "text" \/ lo.t = "text"
        \/ la.v = 0 \/ lo.v = 0
        \/ la.v < 400000 \/ la.v > 2200000
        \/ lo.v < 11600000 \/ lo.v > 12700000
NotDegenerate(report) == ~Degenerate(report)

\* C9: a record with a missing, zero, NaN or out-of-box coordinate is in no
\* HeatCell, the cells and points are those built from the other records alone,
\* and every emitted point lies inside the bounding box.
C9_DegenerateDropped ==
    /\ \A i \in 1..Len(reports) : Degenerate(reports[i]) => GroupOf(i) = {}
    /\ LET others == SelectSeq(reports, NotDegenerate)
       IN  /\ heatmapPoints = createHeatmapData(others, selectedCrimeTypeHeatmap,
                                                timeRange, now, intensity)
           /\ locationGroups = LocationGroupsOf(others, selectedCrimeTypeHeatmap,
                                                timeRange, now)
    /\ \A g \in 1..Len(heatmapPoints) :
          /\ heatmapPoints[g][1] >= 400000 /\ heatmapPoints[g][1] <= 2200000
          /\ heatmapPoints[g][2] >= 11600000 /\ heatmapPoints[g][2] <= 12700000

\* (0, 0) and (91, 200) loaded next to a record that forms a cell.
C9_Witness ==
    /\ Len(heatmapPoints) = 1
    /\ \E i, j \in 1..Len(reports) :
          /\ reports[i].location.latitude = Num(0)
          /\ reports[i].location.longitude = Num(0)
          /\ reports[j].location.latitude = Num(9100000)
          /\ reports[j].location.longitude = Num(20000000)

\* min(1, min(1, c / 10) * d / 10) in hundredths
ExpectedIntensity(c, d) ==
    LET base == IF c >= 10 THEN 10 ELSE c       \* tenths
    IN  IF base * d >= 100 THEN 100 ELSE base * d

\* C10: for every HeatCell with raw count c >= 1 and every dial d in 1..10 the
\* emitted intensity is min(1, min(1, c/10) * d/10), lies in [0, 1], and does not
\* decrease when the count grows or the dial is turned up.
C10_Intensity ==
    /\ [](\A g \in 1..Len(heatmapPoints) :
             /\ locationGroups[g].count >= 1
             /\ intensity \in 1..10
             /\ heatmapPoints[g][3] =
                    ExpectedIntensity(locationGroups[g].count, intensity)
             /\ heatmapPoints[g][3] >= 0 /\ heatmapPoints[g][3] <= 100)
    /\ [][\A g \in 1..Len(heatmapPoints) :
             (/\ locationGroups'[g].count >= locationGroups[g].count
              /\ intensity' >= intensity)
                => heatmapPoints'[g][3] >= heatmapPoints[g][3]]_vars

\* A cell of more than 10 records at full dial: the base intensity is clamped.
C10_Witness ==
    /\ intensity = 10
    /\ \E g \in 1..Len(heatmapPoints) :
          /\ locationGroups[g].count = 11
          /\ heatmapPoints[g][3] = 100

-----------------------------------------------------------------------------
(* Dates.  Hour 0 is 2025-01-01T00:00, a Wednesday; 2025 and 2026 have 365 days. *)

MonthLengths == <<31, 28, 31, 30, 31, 30, 31, 31, 30, 31, 30, 31>>
RECURSIVE DateIn(_, _)
DateIn(dayOfYear, month) ==
    IF dayOfYear < MonthLengths[month]
    THEN dayOfYear + 1
    ELSE DateIn(dayOfYear - MonthLengths[month], month + 1)
getDate(t) == DateIn((t \div 24) % 365, 1)      \* day of the month, 1..31
getDay(t) == ((t \div 24) + 3) % 7               \* 0 = Sunday
getHours(t) == t % 24
WeekOfMonth(t) == getDate(t) \div 7              \* Math.floor(date.getDate() / 7)
DayNames == <<"Sunday", "Monday", "Tuesday", "Wednesday", "Thursday", "Friday",
              "Saturday">>

-----------------------------------------------------------------------------
(* Pattern-Based Daily Forecaster: generateCrimeForecast *)

\* randomFactor = 0.8 + Math.random() * 0.4, in hundredths, for the i-th draw of a
\* generator in state `seed`
RandomFactors == <<80, 100, 119>>
RandomFactor(seed, i) == RandomFactors[((seed + i) % Len(RandomFactors)) + 1]

\* (variant: the loop stops one day early)
ForecastDaysExclusive(period) ==
    IF period = "1week" THEN 6 ELSE IF period = "2weeks" THEN 13 ELSE 29

ForecastDays(period) ==
    IF period = "1week" THEN 7 ELSE IF period = "2weeks" THEN 14 ELSE 30

\* The number of entries of values equal to v (0 stands for an absent tally)
Tally(values, v) == Cardinality({k \in 1..Len(values) : values[k] = v})

\* hourlyPatterns, dailyPatterns, weeklyPatterns and totalCrimes of the history
Patterns(history) ==
    LET hours == [k \in 1..Len(history) |-> getHours(history[k].timestamp)]
        days == [k \in 1..Len(history) |-> getDay(history[k].timestamp)]
        weeks == [k \in 1..Len(history) |-> WeekOfMonth(history[k].timestamp)]
    IN  [hourlyPatterns |-> [hour \in 0..23 |-> Tally(hours, hour)],
         dailyPatterns |-> [day \in 0..6 |-> Tally(days, day)],
         weeklyPatterns |-> [week \in 0..4 |-> Tally(weeks, week)],
         totalCrimes |-> Len(history)]

\* baseRate = totalCrimes / Math.max(1, (now - first timestamp) / one day)
BaseRate(history, clock) ==
    Rat(Len(history) * 24, Max(24, clock - history[1].timestamp))

\* tally / (totalCrimes / k) || 1
Multiplier(tally, total, k) ==
    IF tally = 0 THEN <<1, 1>> ELSE Rat(tally * k, total)

\* dailyPrediction of the day i days ahead, before rounding
DailyPrediction(patterns, baseRate, clock, seed, i) ==
    LET t == clock + 24 * i
        dayMultiplier ==
            Multiplier(patterns.dailyPatterns[getDay(t)], patterns.totalCrimes, 7)
        weekMultiplier ==
            Multiplier(patterns.weeklyPatterns[WeekOfMonth(t)], patterns.totalCrimes, 4)
    IN  RMul(RMul(RMul(baseRate, dayMultiplier), weekMultiplier),
             Rat(RandomFactor(seed, i), 100))

\* (dailyPrediction / 24) * hourMultiplier
HourShare(patterns, dailyPrediction, hour) ==
    RMul(RMul(dailyPrediction, <<1, 24>>),
         Multiplier(patterns.hourlyPatterns[hour], patterns.totalCrimes, 24))

\* hourlyBreakdown[hour] = Math.round((dailyPrediction / 24) * hourMultiplier)
HourlyBreakdown(patterns, dailyPrediction) ==
    [hour \in 0..23 |->
        LET share == HourShare(patterns, dailyPrediction, hour)
        IN  MathRound(share[1], share[2])]

\* p > q * (n / d) for rationals p >= 0, q > 0
ExceedsBy(p, q, n, d) ==
    LET ratio == RMul(p, <<q[2] * d, q[1] * n>>)
    IN  ratio[1] > ratio[2]

\* (variant: the risk level is taken from the rounded, emitted count)
RiskLevelOfRounded(dailyPrediction, baseRate) ==
    LET emitted == <<MathRound(dailyPrediction[1], dailyPrediction[2]), 1>>
    IN  IF ExceedsBy(emitted, baseRate, 3, 2) THEN "High"
        ELSE IF ExceedsBy(emitted, baseRate, 6, 5) THEN "Medium"
        ELSE "Low"

\* dailyPrediction > baseRate * 1.5 ? 'High' : dailyPrediction > baseRate * 1.2 ?
\* 'Medium' : 'Low'
RiskLevelOf(dailyPrediction, baseRate) ==
    IF ExceedsBy(dailyPrediction, baseRate, 3, 2) THEN "High"
    ELSE IF ExceedsBy(dailyPrediction, baseRate, 6, 5) THEN "Medium"
    ELSE "Low"

\* The DailyForecast pushed for day i.  date is the day number of
\* forecastDate.toISOString().split('T')[0]; dailyPrediction and baseRate are the
\* locals of the loop, kept beside the emitted fields.
DailyForecast(patterns, baseRate, clock, seed, i) ==
    LET dailyPrediction == DailyPrediction(patterns, baseRate, clock, seed, i)
    IN  [date |-> (clock + 24 * i) \div 24,
         dayOfWeek |-> DayNames[getDay(clock + 24 * i) + 1],
         predictedCrimes |-> MathRound(dailyPrediction[1], dailyPrediction[2]),
         hourlyBreakdown |-> HourlyBreakdown(patterns, dailyPrediction),
         riskLevel |-> RiskLevelOf(dailyPrediction, baseRate),
         dailyPrediction |-> dailyPrediction,
         baseRate |-> baseRate]

generateCrimeForecast(history, period, clock, seed) ==
    IF Len(history) = 0
    THEN <<>>
    ELSE LET patterns == Patterns(history)
             baseRate == BaseRate(history, clock)
         IN  [i \in 1..ForecastDays(period) |->
                 DailyForecast(patterns, baseRate, clock, seed, i)]

-----------------------------------------------------------------------------
(* Specification of the Pattern-Based Daily Forecaster *)

\* Histories: a run of one timestamp followed by a run of another.
Repeat(x, n) == [k \in 1..n |-> x]
HistoryStamps(clock) ==
    {clock - 12,            \* today, 00:00
     clock - 50 * 24 - 3}   \* fifty days ago, 09:00
Histories(clock) ==
    {Repeat([timestamp |-> a], n) \o Repeat([timestamp |-> b], m) :
        a \in HistoryStamps(clock), b \in HistoryStamps(clock),
        n \in 0..MaxRun, m \in 0..MaxRun}
PeriodOptions == {"1week", "2weeks", "1month"}

InitDaily ==
    /\ IdleTrend /\ IdleHeat /\ IdleService /\ IdleRequest /\ IdleAccounts
    /\ halfUp \in BOOLEAN
    /\ now = 24 * 100 + 12
    /\ crimeHistory \in Histories(now)
    /\ forecastPeriod \in PeriodOptions
    /\ randomSeed \in 0..(Len(RandomFactors) - 1)
    /\ forecastData = <<>>
    /\ forecastInsights = NoInsights

GenerateCrimeForecast ==
    /\ forecastData = <<>>
    /\ forecastData' = generateCrimeForecast(crimeHistory, forecastPeriod, now, randomSeed)
    /\ randomSeed' = IF Len(crimeHistory) = 0 THEN randomSeed
                     ELSE (randomSeed + ForecastDays(forecastPeriod)) % Len(RandomFactors)
    /\ UNCHANGED <<serviceVars, requestVars, accountVars, trendVars, heatVars, halfUp, now, crimeHistory, forecastPeriod,
                   forecastInsights>>

NextDaily == GenerateCrimeForecast
SpecDaily == InitDaily /\ [][NextDaily]_vars

-----------------------------------------------------------------------------
(* Claims about the Pattern-Based Daily Forecaster *)

Forecasted == forecastData # <<>>
SumOfHours(day) == SumSeq([k \in 1..24 |-> day.hourlyBreakdown[k - 1]])

\* C5: for every DailyForecast produced by generateCrimeForecast, the sum of the 24
\* hourly-breakdown counts differs from that day's predicted count by at most 1.
C5_HourlySumWithinOne ==
    \A i \in 1..Len(forecastData) :
        Abs(SumOfHours(forecastData[i]) - forecastData[i].predictedCrimes) <= 1

\* C6 as stated: the risk level follows from the emitted predicted count and the
\* baseline (High iff predicted > 1.5 x baseline, Medium iff 1.2 x baseline <
\* predicted <= 1.5 x baseline, Low otherwise), and two days with the same emitted
\* count and the same baseline never carry different risk levels.
C6_AsStated ==
    /\ \A i \in 1..Len(forecastData) :
        LET day == forecastData[i]
            high == 2 * day.predictedCrimes * day.baseRate[2] > 3 * day.baseRate[1]
            medium == 5 * day.predictedCrimes * day.baseRate[2] > 6 * day.baseRate[1]
        IN  /\ day.riskLevel = "High" <=> high
            /\ day.riskLevel = "Medium" <=> (medium /\ ~high)
            /\ day.riskLevel = "Low" <=> ~medium
    /\ \A i, j \in 1..Len(forecastData) :
        (/\ forecastData[i].predictedCrimes = forecastData[j].predictedCrimes
         /\ forecastData[i].baseRate = forecastData[j].baseRate)
        => forecastData[i].riskLevel = forecastData[j].riskLevel

\* C6: the risk level of each DailyForecast follows from the day's prediction before
\* rounding and the baseline: High iff prediction > 1.5 x baseline, Medium iff
\* 1.2 x baseline < prediction <= 1.5 x baseline, Low otherwise.
C6_RiskFromUnroundedPrediction ==
    \A i \in 1..Len(forecastData) :
        LET day == forecastData[i]
            p == day.dailyPrediction
            b == day.baseRate
            high == 2 * p[1] * b[2] > 3 * b[1] * p[2]
            medium == 5 * p[1] * b[2] > 6 * b[1] * p[2]
        IN  /\ day.riskLevel = "High" <=> high
            /\ day.riskLevel = "Medium" <=> (medium /\ ~high)
            /\ day.riskLevel = "Low" <=> ~medium

\* Two days of one forecast emit the same count, one Low and one Medium, and a High
\* day is present as well.
C6_Witness ==
    /\ Forecasted
    /\ \E i, j \in 1..Len(forecastData) :
        /\ forecastData[i].predictedCrimes = forecastData[j].predictedCrimes
        /\ forecastData[i].riskLevel = "Low"
        /\ forecastData[j].riskLevel = "Medium"
    /\ \E i \in 1..Len(forecastData) : forecastData[i].riskLevel = "High"

-----------------------------------------------------------------------------
(* Insight Synthesizer: generateForecastInsights *)

\* Array.prototype.sort with the comparator (a, b) => key(b) - key(a): stable,
\* descending by key.  keys[i] is the key of seq[i].
StableSortDesc(seq, keys) ==
    LET n == Len(seq)
        Rank(i) == Cardinality({j \in 1..n : \/ keys[j] > keys[i]
                                             \/ keys[j] = keys[i] /\ j < i}) + 1
    IN  [r \in 1..n |-> seq[CHOOSE i \in 1..n : Rank(i) = r]]

Take(seq, k) == SubSeq(seq, 1, Min(k, Len(seq)))

\* The elements of a set of integers, ascending: the order in which Object.entries
\* lists integer keys.
Ascending(S) ==
    [r \in 1..Cardinality(S) |->
        CHOOSE h \in S : Cardinality({g \in S : g < h}) = r - 1]

TotalPredicted(forecast) ==
    SumSeq([i \in 1..Len(forecast) |-> forecast[i].predictedCrimes])

HourlyTotals(forecast) ==
    LET hours == UNION {DOMAIN forecast[i].hourlyBreakdown : i \in 1..Len(forecast)}
    IN  [hour \in hours |->
            SumSeq([i \in 1..Len(forecast) |->
                IF hour \in DOMAIN forecast[i].hourlyBreakdown
                THEN forecast[i].hourlyBreakdown[hour]
                ELSE 0])]

\* (variant: the first three hours as listed, unsorted)
PeakHoursAsListed(forecast) ==
    LET hourlyTotals == HourlyTotals(forecast)
        hours == Ascending(DOMAIN hourlyTotals)
    IN  Take([k \in 1..Len(hours) |->
                 [hour |-> hours[k], count |-> hourlyTotals[hours[k]]]], 3)

PeakHours(forecast) ==
    LET hourlyTotals == HourlyTotals(forecast)
        hours == Ascending(DOMAIN hourlyTotals)
        entries == [k \in 1..Len(hours) |->
                       [hour |-> hours[k], count |-> hourlyTotals[hours[k]]]]
    IN  Take(StableSortDesc(entries, [k \in 1..Len(entries) |-> entries[k].count]), 3)

\* forecastData.sort(...): the array itself, reordered
SortedByCrimes(forecast) ==
    StableSortDesc(forecast, [i \in 1..Len(forecast) |-> forecast[i].predictedCrimes])

\* (variant: the first three days as given, unsorted)
PeakDaysAsGiven(forecast) ==
    LET top == Take(forecast, 3)
    IN  [k \in 1..Len(top) |->
            [date |-> top[k].date, dayOfWeek |-> top[k].dayOfWeek,
             crimes |-> top[k].predictedCrimes]]

PeakDays(forecast) ==
    LET top == Take(SortedByCrimes(forecast), 3)
    IN  [k \in 1..Len(top) |->
            [date |-> top[k].date, dayOfWeek |-> top[k].dayOfWeek,
             crimes |-> top[k].predictedCrimes]]

HighRiskDays(forecast) ==
    Cardinality({i \in 1..Len(forecast) : forecast[i].riskLevel = "High"})

\* (variant: the thresholds are inclusive)
OverallRiskInclusive(highRiskDays, length) ==
    IF 10 * highRiskDays >= 3 * length THEN "High"
    ELSE IF 10 * highRiskDays >= length THEN "Medium"
    ELSE "Low"

\* highRiskDays > length * 0.3 ? 'High' : highRiskDays > length * 0.1 ? 'Medium' :
\* 'Low'
OverallRisk(highRiskDays, length) ==
    IF 10 * highRiskDays > 3 * length THEN "High"
    ELSE IF 10 * highRiskDays > length THEN "Medium"
    ELSE "Low"

\* (variant: the weekend rule is tried only when the night rule did not fire)
RecommendationsElseIf(riskLevel, peakHours, peakDays, totalPredicted, historyLength) ==
    (IF riskLevel = "High"
     THEN <<"Increase police patrols during peak hours",
            "Deploy additional resources in high-risk areas">>
     ELSE <<>>)
    \o (IF \E k \in 1..Len(peakHours) : peakHours[k].hour >= 18 \/ peakHours[k].hour <= 6
        THEN <<"Enhance night-time security measures">>
        ELSE IF \E k \in 1..Len(peakDays) :
                    peakDays[k].dayOfWeek \in {"Friday", "Saturday"}
        THEN <<"Prepare for weekend crime surge">>
        ELSE <<>>)
    \o (IF 2 * totalPredicted > historyLength
        THEN <<"Consider community awareness campaigns">>
        ELSE <<>>)

Recommendations(riskLevel, peakHours, peakDays, totalPredicted, historyLength) ==
    (IF riskLevel = "High"
     THEN <<"Increase police patrols during peak hours",
            "Deploy additional resources in high-risk areas">>
     ELSE <<>>)
    \o (IF \E k \in 1..Len(peakHours) : peakHours[k].hour >= 18 \/ peakHours[k].hour <= 6
        THEN <<"Enhance night-time security measures">>
        ELSE <<>>)
    \o (IF \E k \in 1..Len(peakDays) : peakDays[k].dayOfWeek \in {"Friday", "Saturday"}
        THEN <<"Prepare for weekend crime surge">>
        ELSE <<>>)
    \o (IF 2 * totalPredicted > historyLength
        THEN <<"Consider community awareness campaigns">>
        ELSE <<>>)

generateForecastInsights(forecast, history) ==
    IF Len(forecast) = 0
    THEN NoInsights
    ELSE LET totalPredicted == TotalPredicted(forecast)
             peakHours == PeakHours(forecast)
             peakDays == PeakDays(forecast)
             riskLevel == OverallRisk(HighRiskDays(forecast), Len(forecast))
         IN  [predictedCrimeCount |-> totalPredicted,
              riskLevel |-> riskLevel,
              peakHours |-> peakHours,
              peakDays |-> peakDays,
              recommendations |-> Recommendations(riskLevel, peakHours, peakDays,
                                                  totalPredicted, Len(history))]

-----------------------------------------------------------------------------
(* Specification of the Insight Synthesizer on forecasts converted from service
   predictions: the days carry an empty hourlyBreakdown and the history is [] *)

ConvertedDay(clock, i, count, risk) ==
    [date |-> (clock + 24 * i) \div 24,
     dayOfWeek |-> DayNames[getDay(clock + 24 * i) + 1],
     predictedCrimes |-> count,
     hourlyBreakdown |-> <<>>,
     riskLevel |-> risk]

\* low Low days, then medium Medium days, then high High days
ConvertedForecast(clock, low, medium, high) ==
    [i \in 1..(low + medium + high) |->
        IF i <= low THEN ConvertedDay(clock, i, 1, "Low")
        ELSE IF i <= low + medium THEN ConvertedDay(clock, i, 2, "Medium")
        ELSE ConvertedDay(clock, i, 3, "High")]

InitInsights ==
    /\ IdleTrend /\ IdleHeat /\ IdleService /\ IdleRequest /\ IdleAccounts
    /\ halfUp = TRUE
    /\ now = 24 * 100 + 12
    /\ crimeHistory = <<>>
    /\ forecastPeriod \in PeriodOptions
    /\ randomSeed = 0
    /\ \E low, medium, high \in 0..MaxDays :
        /\ low + medium + high <= MaxDays
        /\ forecastData = ConvertedForecast(now, low, medium, high)
    /\ forecastInsights = NoInsights

GenerateForecastInsights ==
    /\ forecastInsights' = generateForecastInsights(forecastData, crimeHistory)
    /\ forecastData' = SortedByCrimes(forecastData)
    /\ UNCHANGED <<serviceVars, requestVars, accountVars, trendVars, heatVars, halfUp, now, crimeHistory, forecastPeriod,
                   randomSeed>>

NextInsights == GenerateForecastInsights
SpecInsights == InitInsights /\ [][NextInsights]_vars

\* C7: for every non-empty sequence of DailyForecasts, generateForecastInsights
\* returns overall risk High iff the High-risk days are strictly more than 30% of the
\* days, Medium iff they are strictly more than 10% and at most 30%, Low otherwise.
C7_OverallRisk ==
    [][(GenerateForecastInsights /\ Len(forecastData) > 0) =>
        LET high == HighRiskDays(forecastData)
            length == Len(forecastData)
            risk == forecastInsights'.riskLevel
        IN  /\ risk = "High" <=> 10 * high > 3 * length
            /\ risk = "Medium" <=> (10 * high > length /\ 10 * high <= 3 * length)
            /\ risk = "Low" <=> 10 * high <= length]_vars

\* 4 High days out of 10 gave High.
C7_Witness ==
    /\ Len(forecastData) = 10
    /\ HighRiskDays(forecastData) = 4
    /\ forecastInsights.riskLevel = "High"

-----------------------------------------------------------------------------
(* Strings built and compared by the forecasting service *)

DigitChars == <<"0", "1", "2", "3", "4", "5", "6", "7", "8", "9">>
RECURSIVE ToDigits(_)
ToDigits(n) ==                                  \* String(n), n >= 0
    IF n < 10 THEN <<DigitChars[n + 1]>>
    ELSE Append(ToDigits(n \div 10), DigitChars[(n % 10) + 1])
PadStart2(str) == IF Len(str) < 2 THEN <<"0">> \o str ELSE str   \* padStart(2, '0')
NaNString == <<"N", "a", "N">>                  \* String(NaN)

\* UTF-16 code units of the characters of a month key
CharCode(c) ==
    CASE c = "-" -> 45
      [] c = "N" -> 78
      [] c = "a" -> 97
      [] OTHER -> 48 + (CHOOSE d \in 0..9 : DigitChars[d + 1] = c)

\* a < b in the order of Array.prototype.sort() without a comparator
StringLess(a, b) ==
    \/ /\ Len(a) < Len(b)
       /\ \A k \in 1..Len(a) : a[k] = b[k]
    \/ \E k \in 1..Min(Len(a), Len(b)) :
        /\ \A j \in 1..(k - 1) : a[j] = b[j]
        /\ CharCode(a[k]) < CharCode(b[k])

\* [...S].sort() for a set S of strings
SortStrings(S) ==
    [r \in 1..Cardinality(S) |->
        CHOOSE str \in S : Cardinality({other \in S : StringLess(other, str)}) = r - 1]

\* Number(str): the digits' value, NaN for anything else
IsDigits(str) == Len(str) > 0 /\ \A k \in 1..Len(str) : CharCode(str[k]) \in 48..57
RECURSIVE DigitsValue(_)
DigitsValue(str) ==
    IF Len(str) = 0 THEN 0
    ELSE 10 * DigitsValue(SubSeq(str, 1, Len(str) - 1)) + (CharCode(str[Len(str)]) - 48)
Number(str) ==
    IF IsDigits(str) THEN [nan |-> FALSE, n |-> DigitsValue(str)]
    ELSE [nan |-> TRUE, n |-> 0]

\* str.split('-') into its first two parts
SplitAtDash(str) ==
    LET dashes == {k \in 1..Len(str) : str[k] = "-"}
        first == IF dashes = {} THEN Len(str) + 1
                 ELSE CHOOSE k \in dashes : \A j \in dashes : k <= j
        later == {k \in dashes : k > first}
        second == IF later = {} THEN Len(str) + 1
                  ELSE CHOOSE k \in later : \A j \in later : k <= j
    IN  <<SubSeq(str, 1, first - 1), SubSeq(str, first + 1, second - 1)>>

\* `${year}-${String(month + 1).padStart(2, '0')}` for month index 0..11
FormatMonthKey(year, month) ==
    ToDigits(year) \o <<"-">> \o PadStart2(ToDigits(month + 1))
NaNMonthKey == NaNString \o <<"-">> \o NaNString

-----------------------------------------------------------------------------
(* Dates of the forecasting service *)

RECURSIVE MonthIn(_, _)
MonthIn(dayOfYear, month) ==
    IF dayOfYear < MonthLengths[month + 1]
    THEN month
    ELSE MonthIn(dayOfYear - MonthLengths[month + 1], month + 1)
getMonth(t) == MonthIn((t \div 24) % 365, 0)      \* 0 = January
getFullYear(t) == 2025 + (t \div 24) \div 365

-----------------------------------------------------------------------------
(* Historical Aggregator: fetchHistoricalData *)

\* Values of the fields of a stored report
JsUndefined == [t |-> "undefined"]
JsString(str) == [t |-> "string", s |-> str]
\* a string that new Date() parses to the time `time`
JsDateString(time) == [t |-> "string", s |-> "date", time |-> time]
JsObject(address, name) == [t |-> "object", address |-> address, name |-> name]

JsBoolean(b) == [t |-> "boolean", b |-> b]
IsTruthy(x) ==
    \/ x.t = "object"
    \/ x.t = "string" /\ x.s # ""
    \/ x.t = "boolean" /\ x.b
OrElse(a, b) == IF IsTruthy(a) THEN a ELSE b               \* a || b
StringOf(x) ==                                              \* String(x)
    IF x.t = "string" THEN x.s
    ELSE IF x.t = "object" THEN "[object Object]"
    ELSE "undefined"

\* new Date(x)
NewDate(x) ==
    IF x.t = "string" /\ "time" \in DOMAIN x
    THEN [valid |-> TRUE, time |-> x.time]
    ELSE [valid |-> FALSE, time |-> 0]

\* String(report.type || report.crimeType || report.crime_type || '')
ReportType(report) ==
    StringOf(OrElse(OrElse(OrElse(report.type, report.crimeType), report.crime_type),
                    JsString("")))

\* (variant: a nested location object without address and name resolves to '')
ReportLocationNoDefault(report) ==
    LET named == OrElse(OrElse(report.location, report.location_address),
                        report.address)
        resolved == IF named.t = "object"
                    THEN OrElse(OrElse(named.address, named.name), JsString(""))
                    ELSE named
    IN  StringOf(OrElse(resolved, JsString("")))

\* report.location || report.location_address || report.address, a nested object
\* replaced by its address || name || 'Unknown', then String(... || '')
ReportLocation(report) ==
    LET named == OrElse(OrElse(report.location, report.location_address),
                        report.address)
        resolved == IF named.t = "object"
                    THEN OrElse(OrElse(named.address, named.name), JsString("Unknown"))
                    ELSE named
    IN  StringOf(OrElse(resolved, JsString("")))

\* The predicate of the filter
PassesFilter(report, type, place) ==
    /\ ReportType(report) = type
    /\ ReportLocation(report) = place
    /\ IsTruthy(report.date)

FilterReports(all, type, place) ==
    SelectSeq(all, LAMBDA report : PassesFilter(report, type, place))

\* monthKey of a report
MonthKey(report) ==
    LET date == NewDate(report.date)
    IN  IF date.valid
        THEN FormatMonthKey(getFullYear(date.time), getMonth(date.time))
        ELSE NaNMonthKey

\* (variant: the tallies of the previous call are still in monthlyData)
LeftoverMonthlyData ==
    IF fetched.kind = "data"
    THEN [key \in {fetched.labels[k] : k \in 1..Len(fetched.labels)} |->
             fetched.data[CHOOSE k \in 1..Len(fetched.labels) : fetched.labels[k] = key]]
    ELSE <<>>

\* const monthlyData = {}
NewMonthlyData == <<>>

\* monthlyData after the forEach
MonthlyData(filtered) ==
    LET before == NewMonthlyData
        keys == {MonthKey(filtered[k]) : k \in 1..Len(filtered)}
    IN  [key \in keys \cup DOMAIN before |->
            (IF key \in DOMAIN before THEN before[key] ELSE 0)
            + Cardinality({k \in 1..Len(filtered) : MonthKey(filtered[k]) = key})]

\* reports.sort((a, b) => new Date(a.date) - new Date(b.date)).  With an invalid
\* date the comparator returns NaN for some pairs and the order is left to the
\* engine: the records are then kept with ordered = FALSE.
SortedByDate(filtered) ==
    IF \A k \in 1..Len(filtered) : NewDate(filtered[k].date).valid
    THEN [ordered |-> TRUE,
          records |-> StableSortDesc(filtered,
                         [k \in 1..Len(filtered) |-> 0 - NewDate(filtered[k].date).time])]
    ELSE [ordered |-> FALSE, records |-> filtered]

fetchHistoricalData(all, type, place) ==
    IF Len(all) = 0
    THEN [kind |-> "error", message |-> <<"No crime reports found in database">>]
    ELSE LET filtered == FilterReports(all, type, place)
             monthlyData == MonthlyData(filtered)
             sortedMonths == SortStrings(DOMAIN monthlyData)
         IN  [kind |-> "data",
              labels |-> sortedMonths,
              data |-> [k \in 1..Len(sortedMonths) |-> monthlyData[sortedMonths[k]]],
              rawData |-> SortedByDate(filtered)]

-----------------------------------------------------------------------------
(* generateForecastLabels and performLocalForecasting *)

\* The label of new Date(year, monthIndex, 1), monthIndex >= 0
LabelOf(year, monthIndex) ==
    FormatMonthKey(year + monthIndex \div 12, monthIndex % 12)

generateForecastLabels(historicalLabels, horizon, clock) ==
    IF Len(historicalLabels) = 0
    THEN [i \in 1..horizon |-> LabelOf(getFullYear(clock), getMonth(clock) + i)]
    ELSE LET parts == SplitAtDash(historicalLabels[Len(historicalLabels)])
             year == Number(parts[1])
             month == Number(parts[2])
         IN  [i \in 1..horizon |->
                 IF year.nan \/ month.nan \/ month.n = 0
                 THEN NaNMonthKey
                 ELSE LabelOf(year.n, month.n - 1 + i)]

\* A property of the value generateForecast returned: undefined on the bare array
Defined(value) == [defined |-> TRUE, value |-> value]
Undefined == [defined |-> FALSE]
Property(result, name) ==
    IF result.kind = "object" THEN Defined(result[name]) ELSE Undefined

\* historicalData.data.length === 0
HasNoData(historical) == Len(historical.data) = 0

\* (variant: an empty bucket list is answered with a success response)
performLocalForecastingOfNothing(all, type, place, horizon, clock) ==
    LET historical == fetchHistoricalData(all, type, place)
    IN  IF historical.kind = "error"
        THEN historical
        ELSE [kind |-> "response",
              success |-> TRUE,
              crime_type |-> type,
              location |-> place,
              forecast_months |-> horizon,
              statistics |-> [data_points |-> Len(historical.data)]]

performLocalForecasting(all, type, place, horizon, clock) ==
    LET historical == fetchHistoricalData(all, type, place)
    IN  IF historical.kind = "error"
        THEN historical
        ELSE IF HasNoData(historical)
        THEN [kind |-> "error",
              message |-> <<"No historical data found for ", type, " in ", place>>]
        ELSE LET result == generateForecast(historical.data, horizon)
             IN  [kind |-> "response",
                  success |-> TRUE,
                  crime_type |-> type,
                  location |-> place,
                  forecast_months |-> horizon,
                  raw_data |->
                      [history |-> [labels |-> historical.labels,
                                    data |-> historical.data],
                       forecast |->
                          [labels |-> generateForecastLabels(historical.labels,
                                                             horizon, clock),
                           data |-> Property(result, "forecast"),
                           confidence_upper |-> Property(result, "confidenceUpper"),
                           confidence_lower |-> Property(result, "confidenceLower")]],
                  statistics |->
                      [trend |-> Property(result, "trend"),
                       r_squared |-> Property(result, "rSquared"),
                       data_points |-> Len(historical.data),
                       last_known_value |-> historical.data[Len(historical.data)]]]

-----------------------------------------------------------------------------
(* Specification of the forecasting service: fetchHistoricalData and
   performLocalForecasting on one record snapshot *)

StoredReport(type, crimeType, crime_type, place, location_address, address, date) ==
    [type |-> type, crimeType |-> crimeType, crime_type |-> crime_type,
     location |-> place, location_address |-> location_address,
     address |-> address, date |-> date]

\* type and location, 11 January 2025
TheftInJanuary ==
    StoredReport(JsString("Theft"), JsUndefined, JsUndefined,
                 JsString("Barangay 41"), JsUndefined, JsUndefined,
                 JsDateString(24 * 10))
\* crimeType and location_address, 7 December 2025
TheftInDecember ==
    StoredReport(JsUndefined, JsString("Theft"), JsUndefined,
                 JsUndefined, JsString("Barangay 41"), JsUndefined,
                 JsDateString(24 * 340))
\* an empty type, crime_type and a nested location with an address, 6 January 2026
TheftNextJanuary ==
    StoredReport(JsString(""), JsUndefined, JsString("Theft"),
                 JsObject(JsString("Barangay 41"), JsUndefined), JsUndefined,
                 JsUndefined, JsDateString(24 * 370))
\* a nested location without address and name, 21 January 2025
TheftNowhere ==
    StoredReport(JsString("Theft"), JsUndefined, JsUndefined,
                 JsObject(JsUndefined, JsUndefined), JsUndefined, JsUndefined,
                 JsDateString(24 * 20))
\* no date
TheftUndated ==
    StoredReport(JsString("Theft"), JsUndefined, JsUndefined,
                 JsUndefined, JsUndefined, JsString("Barangay 41"), JsUndefined)
\* a date that does not parse
TheftSometime ==
    StoredReport(JsString("Theft"), JsUndefined, JsUndefined,
                 JsString("Barangay 41"), JsUndefined, JsUndefined,
                 JsString("last week"))
\* another category, 10 February 2025
AssaultInFebruary ==
    StoredReport(JsString("Assault"), JsUndefined, JsUndefined,
                 JsString("Barangay 41"), JsUndefined, JsUndefined,
                 JsDateString(24 * 40))

StoredReports == {TheftInJanuary, TheftInDecember, TheftNextJanuary, TheftNowhere,
                  TheftUndated, TheftSometime, AssaultInFebruary}
ServiceRequests == {<<"Theft", "Barangay 41">>, <<"Assault", "Barangay 41">>,
                    <<"Theft", "Unknown">>}

InitAggregate ==
    /\ IdleTrend /\ IdleHeat /\ IdleDaily /\ IdleRequest /\ IdleAccounts
    /\ halfUp = TRUE
    /\ now = 24 * 100 + 12
    /\ allReports \in SeqsUpTo(StoredReports, MaxStored)
    /\ \E call \in ServiceRequests :
        /\ serviceCrimeType = call[1]
        /\ serviceLocation = call[2]
    /\ fetched = NoOutcome
    /\ response = NoOutcome

FetchHistoricalData ==
    /\ fetched' = fetchHistoricalData(allReports, serviceCrimeType, serviceLocation)
    /\ UNCHANGED <<trendVars, heatVars, dailyVars, requestVars, accountVars, halfUp, now,
                   allReports, serviceCrimeType, serviceLocation, response>>

PerformLocalForecasting ==
    /\ \E horizon \in 1..MaxMonths :
        response' = performLocalForecasting(allReports, serviceCrimeType,
                                            serviceLocation, horizon, now)
    /\ UNCHANGED <<trendVars, heatVars, dailyVars, requestVars, accountVars, halfUp, now,
                   allReports, serviceCrimeType, serviceLocation, fetched>>

NextAggregate == FetchHistoricalData \/ PerformLocalForecasting
SpecAggregate == InitAggregate /\ [][NextAggregate]_vars

-----------------------------------------------------------------------------
(* Claims about the Historical Aggregator *)

Fetched == fetched.kind = "data"
Occurrences(seq, x) == Cardinality({k \in 1..Len(seq) : seq[k] = x})
\* the records of the snapshot the last fetch kept
Kept == fetched.rawData.records
IsKept(report) == Occurrences(Kept, report) > 0
HasUsableDate(report) == report.date.t = "string" /\ "time" \in DOMAIN report.date
\* year * 12 + month index of a usable date
YearMonth(report) == getFullYear(report.date.time) * 12 + getMonth(report.date.time)
\* a well-formed YYYY-MM label, read back as year * 12 + month index
IsMonthLabel(label) ==
    /\ Len(label) = 7
    /\ label[5] = "-"
    /\ IsDigits(SubSeq(label, 1, 4))
    /\ IsDigits(SubSeq(label, 6, 7))
    /\ DigitsValue(SubSeq(label, 6, 7)) \in 1..12
LabelYearMonth(label) ==
    DigitsValue(SubSeq(label, 1, 4)) * 12 + DigitsValue(SubSeq(label, 6, 7)) - 1

\* C12: the MonthlyBuckets have strictly increasing (chronological, duplicate-free)
\* YYYY-MM labels; only months in which a filtered record falls appear; every count
\* is positive; each filtered record is counted in exactly the bucket of its own
\* year-month; the counts sum to the number of filtered records.
C12_BucketsAsStated ==
    Fetched =>
        /\ \A k \in 1..Len(fetched.labels) : IsMonthLabel(fetched.labels[k])
        /\ \A k \in 1..(Len(fetched.labels) - 1) :
            LabelYearMonth(fetched.labels[k]) < LabelYearMonth(fetched.labels[k + 1])
        /\ \A k \in 1..Len(fetched.labels) :
            /\ fetched.data[k] > 0
            /\ fetched.data[k] =
                Cardinality({j \in 1..Len(Kept) :
                    /\ HasUsableDate(Kept[j])
                    /\ YearMonth(Kept[j]) = LabelYearMonth(fetched.labels[k])})
        /\ \A j \in 1..Len(Kept) :
            \E k \in 1..Len(fetched.labels) :
                /\ HasUsableDate(Kept[j])
                /\ YearMonth(Kept[j]) = LabelYearMonth(fetched.labels[k])
        /\ SumSeq(fetched.data) = Len(Kept)

\* C19: every record counted in a MonthlyBucket has a usable timestamp: a record
\* whose timestamp is absent or does not parse is counted in no bucket, and every
\* label is a well-formed YYYY-MM with month 01..12.
C19_UsableTimestampsAsStated ==
    Fetched =>
        /\ SumSeq(fetched.data) =
            Cardinality({k \in 1..Len(allReports) :
                /\ PassesFilter(allReports[k], serviceCrimeType, serviceLocation)
                /\ HasUsableDate(allReports[k])})
        /\ \A k \in 1..Len(fetched.labels) : IsMonthLabel(fetched.labels[k])

\* C13: performLocalForecasting ends in an error, never in a success response,
\* whenever the snapshot is empty or missing or no record matches the requested
\* category and location.
C13_NoDataIsAnError ==
    (/\ response.kind # "none"
     /\ \/ Len(allReports) = 0
        \/ \A k \in 1..Len(allReports) :
            \/ ReportType(allReports[k]) # serviceCrimeType
            \/ ReportLocation(allReports[k]) # serviceLocation)
    => response.kind = "error"

\* The snapshot holds records, none of the requested category, and the call failed.
C13_Witness ==
    /\ Len(allReports) > 0
    /\ \A k \in 1..Len(allReports) : ReportType(allReports[k]) # serviceCrimeType
    /\ response.kind = "error"

\* Resolution as C18 states it: the first present key, '' when none resolves
FirstPresent(values) ==
    IF \E k \in 1..Len(values) : values[k].t # "undefined"
    THEN values[CHOOSE k \in 1..Len(values) :
                    /\ values[k].t # "undefined"
                    /\ \A j \in 1..(k - 1) : values[j].t = "undefined"]
    ELSE JsString("")
TextOfPresent(value) ==
    IF value.t = "object"
    THEN FirstPresent(<<value.address, value.name>>).s
    ELSE value.s

\* C18 as stated: category from the first present of type, crimeType, crime_type;
\* location from the first present of location, location_address, address (a nested
\* object through its address / name); an unresolved field is ''; a record passes
\* the filter iff resolved category and location equal the requested ones.
C18_AsStated ==
    Fetched =>
        \A k \in 1..Len(allReports) :
            LET report == allReports[k]
                category == TextOfPresent(FirstPresent(
                                <<report.type, report.crimeType, report.crime_type>>))
                place == TextOfPresent(FirstPresent(
                             <<report.location, report.location_address,
                               report.address>>))
            IN  IsKept(report) <=>
                    (category = serviceCrimeType /\ place = serviceLocation)

\* Resolution as the code does it: the first non-empty value
FirstNonEmpty(values, default) ==
    IF \E k \in 1..Len(values) : IsTruthy(values[k])
    THEN values[CHOOSE k \in 1..Len(values) :
                    /\ IsTruthy(values[k])
                    /\ \A j \in 1..(k - 1) : ~IsTruthy(values[j])]
    ELSE JsString(default)

\* C18: category is the first non-empty of type, crimeType, crime_type, else '';
\* location is the first non-empty of location, location_address, address, a nested
\* object giving its first non-empty of address, name, else 'Unknown', and '' when
\* none of the three keys is non-empty; a record passes the filter iff the resolved
\* category and location equal the requested ones and its date is non-empty.
C18_Normalization ==
    Fetched =>
        \A k \in 1..Len(allReports) :
            LET report == allReports[k]
                category == FirstNonEmpty(
                    <<report.type, report.crimeType, report.crime_type>>, "").s
                named == FirstNonEmpty(
                    <<report.location, report.location_address, report.address>>, "")
                place == IF named.t = "object"
                         THEN FirstNonEmpty(<<named.address, named.name>>, "Unknown").s
                         ELSE named.s
            IN  Occurrences(Kept, report) =
                    IF /\ category = serviceCrimeType
                       /\ place = serviceLocation
                       /\ report.date.t = "string" /\ report.date.s # ""
                    THEN Occurrences(allReports, report)
                    ELSE 0

\* One fetch kept the records named by legacy keys and dropped a matching record
\* without a date.
C18_Witness ==
    /\ Fetched
    /\ IsKept(TheftInDecember)
    /\ IsKept(TheftNextJanuary)
    /\ \E k \in 1..Len(allReports) : allReports[k] = TheftUndated
    /\ ~IsKept(TheftUndated)

-----------------------------------------------------------------------------
(* Specification of repeated invocations: the forecasting service called again on
   the same snapshot with the same parameters, the heat map rendered again from the
   same reports, filters, dial and clock *)

EngineSnapshot == <<TheftInJanuary, TheftInJanuary, TheftInDecember,
                    TheftNextJanuary, TheftSometime>>
EngineKinds(clock) == {ManilaA(clock), ManilaB(clock), Corner(clock)}

InitEngine ==
    /\ IdleTrend /\ IdleDaily /\ IdleRequest /\ IdleHeat /\ IdleAccounts
    /\ halfUp = TRUE
    /\ now = 24 * 100
    /\ \E k \in 0..Len(EngineSnapshot) : allReports = SubSeq(EngineSnapshot, 1, k)
    /\ \E call \in ServiceRequests :
        /\ serviceCrimeType = call[1]
        /\ serviceLocation = call[2]
    /\ fetched = NoOutcome
    /\ response = NoOutcome

ReportAddedEngine == ReportAdded(EngineKinds(now), MaxPlaced)

\* A render with nothing changed: createHeatmapData runs again on the same state.
Rerender ==
    /\ Render(reports, selectedCrimeTypeHeatmap, timeRange, intensity)
    /\ UNCHANGED <<serviceVars, requestVars, accountVars, trendVars, dailyVars, halfUp, now,
                   reports, selectedCrimeTypeHeatmap, timeRange, intensity>>

NextEngine ==
    FetchHistoricalData \/ PerformLocalForecasting \/ ReportAddedEngine \/ Rerender
SpecEngine == InitEngine /\ [][NextEngine]_vars

-----------------------------------------------------------------------------
(* Further claims about the Trend Forecaster and the Pattern-Based Daily
   Forecaster *)

IsConstant(y) == \A i \in 1..Len(y) : y[i] = y[1]

\* C17: for a series of length >= 3 whose counts are all equal, R^2 is reported as
\* undefined and not as the result of dividing SSres by a zero SStot, and the
\* forecast has `months` points equal to the constant value.
C17_ZeroVarianceAsStated ==
    (Called /\ Len(historicalData) >= 3 /\ IsConstant(historicalData)) =>
        /\ forecastResult.kind = "object"
        /\ forecastResult.rSquared # NaN
        /\ Len(forecastResult.forecast) = months
        /\ \A i \in 1..months : forecastResult.forecast[i] = historicalData[1]

\* C20: for a non-empty history and horizon H (7, 14 or 30 days) generateCrimeForecast
\* returns exactly H DailyForecasts, one for each of the days 1..H ahead in
\* increasing date order, each with an integer predicted count >= 0, an hourly
\* breakdown defined for exactly the hours 0..23 with integer counts >= 0, and a risk
\* level in {Low, Medium, High}.
C20_DailyForecastShape ==
    [][(GenerateCrimeForecast /\ Len(crimeHistory) > 0) =>
        LET horizon == CASE forecastPeriod = "1week" -> 7
                         [] forecastPeriod = "2weeks" -> 14
                         [] OTHER -> 30
        IN  /\ Len(forecastData') = horizon
            /\ \A i \in 1..Len(forecastData') :
                LET day == forecastData'[i]
                IN  /\ day.date = (now \div 24) + i
                    /\ day.predictedCrimes \in Nat
                    /\ DOMAIN day.hourlyBreakdown = 0..23
                    /\ \A hour \in 0..23 : day.hourlyBreakdown[hour] \in Nat
                    /\ day.riskLevel \in {"Low", "Medium", "High"}
            /\ \A i \in 1..(Len(forecastData') - 1) :
                forecastData'[i].date < forecastData'[i + 1].date]_vars

\* A month of forecasts with a day that predicts crimes.
C20_Witness ==
    /\ Len(crimeHistory) > 0
    /\ Len(forecastData) = 30
    /\ \E i \in 1..30 : forecastData[i].predictedCrimes > 0

-----------------------------------------------------------------------------
(* The forecast request of the Analytics page: fetchCrimeForecast *)

MinimumRecords == 10     \* historicalData.length < 10

\* One stored record as fetchCrimeForecast reads it.  nested is the record found
\* under data[data.reportId] (JsUndefined when there is none).
RawRecord(reportId, nested, dateTime, createdAt, timestamp, type) ==
    [reportId |-> reportId, nested |-> nested, dateTime |-> dateTime,
     createdAt |-> createdAt, timestamp |-> timestamp, crimeType |-> type]

\* data.reportId ? data[data.reportId] || data : data
ReportData(data) ==
    IF IsTruthy(data.reportId) /\ data.nested.t # "undefined"
    THEN data.nested.value
    ELSE data

\* The first day of the month `back` months before the month of t, as a day number
\* of the epoch; the month stays within 2025 and 2026.
DaysBeforeMonth(month) == SumSeq(SubSeq(MonthLengths, 1, month))
MonthStart(t, back) ==
    LET index == (getFullYear(t) - 2025) * 12 + getMonth(t) - back
    IN  (index \div 12) * 365 + DaysBeforeMonth(index % 12)

\* threeMonthsAgo: new Date() with setMonth(getMonth() - 3); a day of the month the
\* target month does not have runs over into the next month
ThreeMonthsAgo(clock) ==
    (MonthStart(clock, 3) + getDate(clock) - 1) * 24 + getHours(clock)

\* The item built from one record: timestamp is dateTime || createdAt || timestamp
\* || new Date().toISOString(), crimeType is crimeType || 'Unknown'
HistoryItem(key, data, clock) ==
    LET reportData == ReportData(data)
    IN  [id |-> key,
         timestamp |-> OrElse(OrElse(OrElse(reportData.dateTime, reportData.createdAt),
                                     reportData.timestamp),
                              JsDateString(clock)),
         crimeType |-> StringOf(OrElse(reportData.crimeType, JsString("Unknown")))]

\* The predicate of the filter
Qualifies(item, type, clock) ==
    /\ type = "" \/ item.crimeType = type
    /\ NewDate(item.timestamp).valid
    /\ NewDate(item.timestamp).time >= ThreeMonthsAgo(clock)

\* historicalData of the statistical path, its timestamps as times
HistoricalItems(raw, type, clock) ==
    LET items == [k \in 1..Len(raw) |-> HistoryItem(k, raw[k], clock)]
        kept == SelectSeq(items, LAMBDA item : Qualifies(item, type, clock))
    IN  [k \in 1..Len(kept) |->
            [id |-> kept[k].id,
             timestamp |-> NewDate(kept[k].timestamp).time,
             crimeType |-> kept[k].crimeType]]

NoDataMessage == "No historical crime data available for forecasting"
InsufficientMessage ==
    "Insufficient historical data for accurate forecasting (minimum 10 records required)"
UnreachableMessage == "the message of the error get() rejected with"

\* (variant: ten records are not enough)
IsInsufficientAtTen(history) == Len(history) <= MinimumRecords

\* historicalData.length < 10
IsInsufficient(history) == Len(history) < MinimumRecords

\* The statistical path from the answer of get() on: an error, or the forecast and
\* its insights.  generateForecastInsights sorts the array it is given, which is the
\* array handed to setForecastData.
StatisticalForecast(reachable, raw, type, period, clock, seed) ==
    IF ~reachable
    THEN [kind |-> "error", message |-> UnreachableMessage]
    ELSE IF Len(raw) = 0
    THEN [kind |-> "error", message |-> NoDataMessage]
    ELSE LET history == HistoricalItems(raw, type, clock)
         IN  IF IsInsufficient(history)
             THEN [kind |-> "error", message |-> InsufficientMessage]
             ELSE LET forecast == generateCrimeForecast(history, period, clock, seed)
                  IN  [kind |-> "forecast",
                       history |-> history,
                       forecast |-> SortedByCrimes(forecast),
                       insights |-> generateForecastInsights(forecast, history)]

\* What the ML service can answer to the status query and to the prediction request
StatusOutcomes == {"network failure", "unparsable", "no trained model", "trained"}
PredictionOutcomes == {"network failure", "unparsable", "refused", "no predictions",
                       "malformed predictions", "predictions"}

\* The forecast mapped from well-formed predictions, one per requested day
PredictedByService(clock, period) ==
    ConvertedForecast(clock, ForecastDays(period) - 2, 1, 1)

\* The forecast mapped from predictions: [{}]: a single day whose date, dayOfWeek
\* and riskLevel are undefined and whose predictedCrimes is Math.round(undefined),
\* and the insights generateForecastInsights derives from it
MalformedDay ==
    [date |-> JsUndefined, dayOfWeek |-> JsUndefined, predictedCrimes |-> NaN,
     hourlyBreakdown |-> <<>>, riskLevel |-> JsUndefined]
MalformedForecast == <<MalformedDay>>
MalformedInsights ==
    [predictedCrimeCount |-> NaN, riskLevel |-> "Low", peakHours |-> <<>>,
     peakDays |-> <<[date |-> JsUndefined, dayOfWeek |-> JsUndefined,
                     crimes |-> NaN]>>,
     recommendations |-> <<>>]

\* The click on Generate Forecast (disabled while forecastLoading): the call up to
\* its first await
StartForecast ==
    /\ ~forecastLoading
    /\ forecastLoading' = TRUE
    /\ forecastError' = Null
    /\ request' = [at |-> "status", crimeType |-> forecastCrimeType,
                   period |-> forecastPeriod]
    /\ mlOutcome' = NoAnswer
    /\ UNCHANGED <<trendVars, heatVars, dailyVars, serviceVars, accountVars, halfUp, now, rawData,
                   forecastCrimeType>>

\* The status query settles: from the await to the next await
StatusAnswered ==
    /\ request.at = "status"
    /\ \E outcome \in StatusOutcomes :
        /\ mlOutcome' = [mlOutcome EXCEPT !.status = outcome]
        /\ request' = [request EXCEPT
                          !.at = IF outcome = "trained" THEN "predict" ELSE "database"]
    /\ UNCHANGED <<trendVars, heatVars, dailyVars, serviceVars, accountVars, halfUp, now, rawData,
                   forecastCrimeType, forecastLoading, forecastError>>

\* The prediction request settles: the forecast is stored and the call returns, or
\* the inner catch leads on to get()
PredictionsAnswered ==
    /\ request.at = "predict"
    /\ \E outcome \in PredictionOutcomes :
        /\ mlOutcome' = [mlOutcome EXCEPT !.predictions = outcome]
        /\ IF outcome \in {"predictions", "malformed predictions"}
           THEN /\ forecastData' =
                       IF outcome = "predictions"
                       THEN SortedByCrimes(PredictedByService(now, request.period))
                       ELSE MalformedForecast
                /\ forecastInsights' =
                       IF outcome = "predictions"
                       THEN generateForecastInsights(
                                PredictedByService(now, request.period), <<>>)
                       ELSE MalformedInsights
                /\ forecastLoading' = FALSE
                /\ request' = NoRequest
           ELSE /\ request' = [request EXCEPT !.at = "database"]
                /\ UNCHANGED <<forecastData, forecastInsights, forecastLoading>>
    /\ UNCHANGED <<trendVars, heatVars, serviceVars, accountVars, halfUp, now, rawData,
                   forecastCrimeType, forecastError, crimeHistory, forecastPeriod,
                   randomSeed>>

\* get() settles: the statistical path to the end of the call.  The draws of
\* Math.random are those randomSeed stands for.
DatabaseAnswered ==
    /\ request.at = "database"
    /\ \E reachable \in BOOLEAN :
        \E outcome \in {StatisticalForecast(reachable, rawData, request.crimeType,
                                            request.period, now, randomSeed)} :
            IF outcome.kind = "error"
            THEN /\ forecastError' = outcome.message
                 /\ UNCHANGED <<forecastData, forecastInsights, crimeHistory>>
            ELSE /\ forecastData' = outcome.forecast
                 /\ forecastInsights' = outcome.insights
                 /\ crimeHistory' = outcome.history
                 /\ UNCHANGED forecastError
    /\ forecastLoading' = FALSE
    /\ request' = NoRequest
    /\ UNCHANGED <<trendVars, heatVars, serviceVars, accountVars, halfUp, now, rawData,
                   forecastCrimeType, forecastPeriod, randomSeed, mlOutcome>>

ForecastCrimeTypeOptions == {"", "Theft"}
SetForecastCrimeType ==
    /\ \E type \in ForecastCrimeTypeOptions \ {forecastCrimeType} :
        forecastCrimeType' = type
    /\ UNCHANGED <<trendVars, heatVars, dailyVars, serviceVars, accountVars, halfUp, now, rawData,
                   forecastLoading, forecastError, request, mlOutcome>>

-----------------------------------------------------------------------------
(* Specification of the forecast request *)

Plain(dateTime, type) ==
    RawRecord(JsUndefined, JsUndefined, dateTime, JsUndefined, JsUndefined, type)
RecentTheft(clock) == Plain(JsDateString(clock - 12), JsString("Theft"))
RecentAssault(clock) == Plain(JsDateString(clock - 50 * 24 - 3), JsString("Assault"))
\* older than three months
OldTheft(clock) == Plain(JsDateString(24 * 5), JsString("Theft"))
\* the report nested under its reportId, with createdAt only
NestedTheft(clock) ==
    RawRecord(JsString("r1"),
              [t |-> "object",
               value |-> RawRecord(JsUndefined, JsUndefined, JsUndefined,
                                   JsDateString(clock - 12), JsUndefined,
                                   JsString("Theft"))],
              JsUndefined, JsUndefined, JsUndefined, JsUndefined)
\* no time and no category: counted as of now, 'Unknown'
Bare(clock) ==
    RawRecord(JsUndefined, JsUndefined, JsUndefined, JsUndefined, JsUndefined,
              JsUndefined)
RawKinds(clock) ==
    {RecentTheft(clock), RecentAssault(clock), OldTheft(clock), NestedTheft(clock),
     Bare(clock)}
\* no snapshot, or nine recent thefts and a few records of one kind more
RawSnapshots(clock) ==
    {<<>>} \cup {Repeat(RecentTheft(clock), MinimumRecords - 1) \o Repeat(kind, extra) :
                    kind \in RawKinds(clock), extra \in 0..MaxExtra}

InitRequest ==
    /\ IdleTrend /\ IdleHeat /\ IdleService /\ IdleAccounts
    /\ halfUp = TRUE
    /\ now = 24 * 100 + 12
    /\ rawData \in RawSnapshots(now)
    /\ forecastCrimeType = ""
    /\ forecastLoading = FALSE
    /\ forecastError = Null
    /\ request = NoRequest
    /\ mlOutcome = NoAnswer
    /\ crimeHistory = <<>>
    /\ forecastPeriod \in {"1week", "2weeks"}
    /\ randomSeed = 0
    /\ forecastData = <<>>
    /\ forecastInsights = NoInsights

NextRequest ==
    \/ StartForecast
    \/ StatusAnswered
    \/ PredictionsAnswered
    \/ DatabaseAnswered
    \/ SetForecastCrimeType
SpecRequest == InitRequest /\ [][NextRequest]_vars

\* The record store answers every get(); nothing makes the ML service answer.
SpecRequestFair == SpecRequest /\ WF_vars(DatabaseAnswered)

-----------------------------------------------------------------------------
(* Claims about the forecast request *)

Finishes == request.at # "idle" /\ request'.at = "idle"
FallbackFinishes == request.at = "database" /\ Finishes
QualifyingRecords == HistoricalItems(rawData, request.crimeType, now)
MessagesOfFallback == {Null, NoDataMessage, InsufficientMessage, UnreachableMessage}

\* C14 as stated: a request made while fewer than 10 records qualify ends with
\* forecastError set, forecastData and forecastInsights as they were and
\* forecastLoading false, whatever path the request took.
C14_AsStated ==
    [][Finishes /\ Len(QualifyingRecords) < MinimumRecords
          => /\ forecastError' # Null
             /\ forecastData' = forecastData
             /\ forecastInsights' = forecastInsights
             /\ ~forecastLoading']_vars

\* C14: when the request falls back to the statistical path and get() answers with
\* a snapshot that exists, fewer than 10 qualifying records end the request with
\* the InsufficientData message in forecastError, forecastData and
\* forecastInsights as they were and forecastLoading false; with 10 or more
\* qualifying records the request ends without an error and with the forecast of
\* these records.
C14_InsufficientOnFallback ==
    [][FallbackFinishes /\ Len(rawData) > 0 /\ forecastError' # UnreachableMessage
          => /\ ~forecastLoading'
             /\ IF Len(QualifyingRecords) < MinimumRecords
                THEN /\ forecastError' = InsufficientMessage
                     /\ forecastData' = forecastData
                     /\ forecastInsights' = forecastInsights
                ELSE /\ forecastError' = Null
                     /\ crimeHistory' = QualifyingRecords
                     /\ Len(forecastData') = ForecastDays(request.period)]_vars

\* An earlier forecast is on display, and a request that fell back with fewer
\* qualifying records than the ten or more stored has ended in the
\* InsufficientData error.
C14_Witness ==
    /\ request.at = "idle"
    /\ forecastError = InsufficientMessage
    /\ mlOutcome.status \in {"network failure", "unparsable", "no trained model"}
    /\ Len(rawData) >= MinimumRecords
    /\ Len(forecastData) = ForecastDays(forecastPeriod)
    /\ ~forecastLoading

MLFailures == {"network failure", "unparsable", "no trained model", "refused",
               "no predictions", "malformed predictions"}

\* C15: whenever the status query or the prediction request fails (network
\* failure, unparsable or malformed response, refusal, no trained model), the
\* request goes on to the statistical path, forecastError stays clear and nothing
\* derived from the failed response is stored in forecastData or forecastInsights.
C15_EveryFailureFallsBack ==
    [][((StatusAnswered \/ PredictionsAnswered)
            /\ (mlOutcome'.status \in MLFailures
                   \/ mlOutcome'.predictions \in MLFailures))
          => /\ request'.at = "database"
             /\ forecastError' = Null
             /\ forecastData' = forecastData
             /\ forecastInsights' = forecastInsights]_vars

\* C16: every request that started finishes.
C16_EveryRequestFinishes == forecastLoading ~> ~forecastLoading

-----------------------------------------------------------------------------
(* Specification of the Insight Synthesizer behind both of its callers: on the
   forecast generateCrimeForecast made of a history of ten records or more, with
   this history, and on a forecast converted from service predictions, with [] *)

SynthStamps(clock) ==
    {clock - 12,             \* today, Friday 11 April 2025, 00:00
     clock - 3 * 24 - 1,     \* Tuesday 8 April, 11:00
     clock - 9 * 24 - 2,     \* Wednesday 2 April, 10:00
     clock - 50 * 24 - 3}    \* Thursday 20 February, 09:00
SynthHistories(clock) ==
    {Repeat([timestamp |-> a], MinimumRecords) \o Repeat([timestamp |-> b], more) :
        a \in SynthStamps(clock), b \in SynthStamps(clock), more \in 0..MaxMore}

InitSynth ==
    /\ IdleTrend /\ IdleHeat /\ IdleService /\ IdleRequest /\ IdleAccounts
    /\ halfUp \in BOOLEAN
    /\ now = 24 * 100 + 12
    /\ forecastPeriod \in {"1week", "2weeks"}
    /\ randomSeed \in 0..(Len(RandomFactors) - 1)
    /\ \/ /\ crimeHistory \in SynthHistories(now)
          /\ forecastData = <<>>
       \/ /\ crimeHistory = <<>>
          /\ \E low, high \in 0..MaxDays :
                /\ low + high <= MaxDays
                /\ forecastData = ConvertedForecast(now, low, 0, high)
    /\ forecastInsights = NoInsights

NextSynth ==
    \/ GenerateCrimeForecast
    \/ GenerateForecastInsights
SpecSynth == InitSynth /\ [][NextSynth]_vars

-----------------------------------------------------------------------------
(* Claims about the insights *)

Synthesized == GenerateForecastInsights /\ Len(forecastData) > 0
Recommends(insights, text) ==
    \E k \in 1..Len(insights.recommendations) : insights.recommendations[k] = text
NightRule(insights) ==
    \E k \in 1..Len(insights.peakHours) :
        insights.peakHours[k].hour >= 18 \/ insights.peakHours[k].hour <= 6
WeekendRule(insights) ==
    \E k \in 1..Len(insights.peakDays) :
        insights.peakDays[k].dayOfWeek \in {"Friday", "Saturday"}
AwarenessRule(insights, history) ==
    2 * insights.predictedCrimeCount > Len(history)
Fired(condition, entries) == IF condition THEN entries ELSE 0

\* C21: the recommendations follow four independent rules, each firing iff its own
\* condition holds: overall risk High adds the two patrol and resource
\* recommendations, a peak hour >= 18 or <= 6 the night-security one, a peak day
\* named Friday or Saturday the weekend one, a total predicted above half the
\* history's size the community-awareness one; the list holds what fired and
\* nothing else, at most 5 entries, none twice.
C21_IndependentRules ==
    [][Synthesized =>
        LET insights == forecastInsights'
            list == insights.recommendations
        IN  /\ Recommends(insights, "Increase police patrols during peak hours")
                  <=> insights.riskLevel = "High"
            /\ Recommends(insights, "Deploy additional resources in high-risk areas")
                  <=> insights.riskLevel = "High"
            /\ Recommends(insights, "Enhance night-time security measures")
                  <=> NightRule(insights)
            /\ Recommends(insights, "Prepare for weekend crime surge")
                  <=> WeekendRule(insights)
            /\ Recommends(insights, "Consider community awareness campaigns")
                  <=> AwarenessRule(insights, crimeHistory)
            /\ Len(list) = Fired(insights.riskLevel = "High", 2)
                             + Fired(NightRule(insights), 1)
                             + Fired(WeekendRule(insights), 1)
                             + Fired(AwarenessRule(insights, crimeHistory), 1)
            /\ Len(list) <= 5
            /\ \A k, l \in 1..Len(list) : list[k] = list[l] => k = l]_vars

\* The night and the awareness rule fired beside the weekend rule, the High rule
\* did not.
C21_Witness ==
    /\ Len(forecastData) > 0
    /\ forecastInsights.peakDays # <<>>
    /\ forecastInsights.riskLevel # "High"
    /\ NightRule(forecastInsights)
    /\ WeekendRule(forecastInsights)
    /\ AwarenessRule(forecastInsights, crimeHistory)
    /\ Len(forecastInsights.recommendations) = 3

HoursPresent(forecast) ==
    UNION {DOMAIN forecast[i].hourlyBreakdown : i \in 1..Len(forecast)}
CountOfHour(forecast, hour) ==
    SumSeq([i \in 1..Len(forecast) |->
        IF hour \in DOMAIN forecast[i].hourlyBreakdown
        THEN forecast[i].hourlyBreakdown[hour] ELSE 0])

\* C22: peakHours holds min(3, number of hours present) entries, each with the sum
\* of its hour's counts over all days, in non-increasing order of count; an hour
\* left out counts no more than any hour listed; of two hours of equal count the
\* one met first (the smaller, as Object.entries lists the keys) comes first, in
\* the list and at its cut.
C22_PeakHours ==
    [][Synthesized =>
        LET peak == forecastInsights'.peakHours
            present == HoursPresent(forecastData)
            listed == {peak[k].hour : k \in 1..Len(peak)}
        IN  /\ Len(peak) = Min(3, Cardinality(present))
            /\ Cardinality(listed) = Len(peak)
            /\ listed \subseteq present
            /\ \A k \in 1..Len(peak) :
                  peak[k].count = CountOfHour(forecastData, peak[k].hour)
            /\ \A k, l \in 1..Len(peak) :
                  k < l => \/ peak[k].count > peak[l].count
                           \/ /\ peak[k].count = peak[l].count
                              /\ peak[k].hour < peak[l].hour
            /\ \A hour \in present \ listed : \A k \in 1..Len(peak) :
                  \/ CountOfHour(forecastData, hour) < peak[k].count
                  \/ /\ CountOfHour(forecastData, hour) = peak[k].count
                     /\ hour > peak[k].hour]_vars

\* Three peak hours, the first of them not hour 0, and a tie at the cut.
C22_Witness ==
    /\ Len(forecastInsights.peakHours) = 3
    /\ forecastInsights.peakHours[1].hour > 0
    /\ forecastInsights.peakHours[1].count > forecastInsights.peakHours[2].count
    /\ \E hour \in HoursPresent(forecastData) :
          /\ hour > forecastInsights.peakHours[3].hour
          /\ CountOfHour(forecastData, hour) = forecastInsights.peakHours[3].count

DaysAbove(forecast, count) ==
    Cardinality({i \in 1..Len(forecast) : forecast[i].predictedCrimes > count})
DaysAtLeast(forecast, count) ==
    Cardinality({i \in 1..Len(forecast) : forecast[i].predictedCrimes >= count})

\* C23: peakDays holds min(3, number of days) entries, each a day of the forecast,
\* in non-increasing order of predicted count; a day left out counts no more than
\* any day listed; predictedCrimeCount is the sum of the predicted counts of all
\* days.
C23_PeakDays ==
    [][Synthesized =>
        LET peak == forecastInsights'.peakDays
        IN  /\ Len(peak) = Min(3, Len(forecastData))
            /\ \A k \in 1..Len(peak) :
                  /\ \E i \in 1..Len(forecastData) :
                        /\ forecastData[i].date = peak[k].date
                        /\ forecastData[i].dayOfWeek = peak[k].dayOfWeek
                        /\ forecastData[i].predictedCrimes = peak[k].crimes
                  /\ DaysAbove(forecastData, peak[k].crimes) <= k - 1
                  /\ DaysAtLeast(forecastData, peak[k].crimes) >= k
            /\ \A k, l \in 1..Len(peak) : k < l => peak[k].crimes >= peak[l].crimes
            /\ \A k, l \in 1..Len(peak) : k # l => peak[k].date # peak[l].date
            /\ forecastInsights'.predictedCrimeCount
                  = SumSeq([i \in 1..Len(forecastData) |->
                               forecastData[i].predictedCrimes])]_vars

\* More than three days, the peak days are not the first three by date, and a day
\* left out counts less than the last day listed.
C23_Witness ==
    /\ Len(forecastData) > 3
    /\ Len(forecastInsights.peakDays) = 3
    /\ forecastInsights.peakDays[1].crimes > forecastInsights.peakDays[3].crimes
    /\ \E k \in 1..3 : forecastInsights.peakDays[k].date > now \div 24 + 3
    /\ \E i \in 1..Len(forecastData) :
          forecastData[i].predictedCrimes < forecastInsights.peakDays[3].crimes
    /\ forecastInsights.predictedCrimeCount > 0

\* C24: computing insights does not modify its input: after
\* generateForecastInsights returns, the sequence of DailyForecasts passed to it,
\* which is the one stored as forecastData, holds the same elements in the same
\* order as before the call.
C24_InputUntouched ==
    [][GenerateForecastInsights => forecastData' = forecastData]_vars

-----------------------------------------------------------------------------
(* Claims about the baseline rate *)

Earliest(history) ==
    CHOOSE t \in {history[k].timestamp : k \in 1..Len(history)} :
        \A k \in 1..Len(history) : t <= history[k].timestamp

\* C25: the baseline rate of generateCrimeForecast is the number of records divided
\* by the days from the earliest record to now, at least 1, whatever the order of
\* the records.
C25_BaseRateFromEarliest ==
    Forecasted =>
        \A i \in 1..Len(forecastData) :
            forecastData[i].baseRate
                = Rat(24 * Len(crimeHistory), Max(24, now - Earliest(crimeHistory)))

-----------------------------------------------------------------------------
(* Specification of the Trend Forecaster on series of widely spread counts *)

WideCounts == {0, 1, 25}
InitBand ==
    /\ IdleHeat /\ IdleClock /\ IdleDaily /\ IdleService /\ IdleRequest /\ IdleAccounts
    /\ historicalData \in UNION {[1..n -> WideCounts] : n \in 3..MaxWide}
    /\ months \in 0..MaxMonths
    /\ forecastResult = NoResult
    /\ halfUp \in BOOLEAN
SpecBand == InitBand /\ [][NextTrend]_vars

\* predicted - 1.96 * stdDev >= 0
LowerNotNegative(predicted, y) ==
    (50 * predicted * Len(y)) * (50 * predicted * Len(y)) >= 9604 * SpreadOfCounts(y)
\* 1.96 * stdDev is k + 1/2 for an integer k (stdDev is at most the largest count)
IsHalfway(y) ==
    \E i \in 1..Len(y) : \E k \in 0..(2 * y[i]) :
        ((2 * k + 1) * 25 * Len(y)) * ((2 * k + 1) * 25 * Len(y))
            = 9604 * SpreadOfCounts(y)
UpperOffset(i) == forecastResult.confidenceUpper[i] - forecastResult.forecast[i]
LowerOffset(i) == forecastResult.forecast[i] - forecastResult.confidenceLower[i]

\* C26 as stated: the band is symmetric and constant: the offset of the upper bound
\* is the same at every step, and at every step where predicted minus half-width
\* is not negative, upper - predicted equals predicted - lower.
C26_AsStated ==
    (Called /\ Len(historicalData) >= 3) =>
        \A i \in 1..months :
            /\ UpperOffset(i) = UpperOffset(1)
            /\ LowerNotNegative(forecastResult.forecast[i], historicalData)
                  => UpperOffset(i) = LowerOffset(i)

\* C26: the offset of the upper bound is the same at every step, and so is the
\* offset of the lower bound at the steps where predicted minus half-width is not
\* negative; there the two offsets are equal, except when 1.96 * stdDev lies
\* exactly halfway between two integers: then upper - predicted is greater by 1
\* than predicted - lower.
C26_BandOffsets ==
    (Called /\ Len(historicalData) >= 3) =>
        \A i \in 1..months :
            /\ UpperOffset(i) = UpperOffset(1)
            /\ IsRoundedHalfWidth(UpperOffset(i), historicalData)
            /\ LowerNotNegative(forecastResult.forecast[i], historicalData)
                  => UpperOffset(i) - LowerOffset(i)
                        = IF IsHalfway(historicalData) THEN 1 ELSE 0

\* On [0, 0, 25, 25] the half-width is 24.5: the band is [14, 63], [24, 73],
\* [34, 83] around 38, 48, 58.
C26_Witness ==
    /\ historicalData = <<0, 0, 25, 25>>
    /\ months = 3
    /\ Called
    /\ forecastResult.forecast = <<38, 48, 58>>
    /\ forecastResult.confidenceUpper = <<63, 73, 83>>
    /\ forecastResult.confidenceLower = <<14, 24, 34>>

-----------------------------------------------------------------------------
(* Claims about the response of performLocalForecasting *)

HasEntries(property, length) == property.defined /\ Len(property.value) = length

\* C27: for every non-empty history performLocalForecasting returns a response whose
\* forecast labels, values, upper bounds and lower bounds all have exactly `months`
\* entries; with 1 or 2 monthly buckets the values are the flat continuation of the
\* last known count.
C27_FullForecastForShortHistories ==
    response.kind = "response" =>
        LET forecast == response.raw_data.forecast
            history == response.raw_data.history.data
        IN  /\ Len(forecast.labels) = response.forecast_months
            /\ HasEntries(forecast.data, response.forecast_months)
            /\ HasEntries(forecast.confidence_upper, response.forecast_months)
            /\ HasEntries(forecast.confidence_lower, response.forecast_months)
            /\ Len(history) < 3 =>
                  \A i \in 1..response.forecast_months :
                      forecast.data.value[i] = history[Len(history)]

-----------------------------------------------------------------------------
(* The data handed to the heat-map layer *)

\* generateTestHeatmapData: Manila, Tondo, Binondo, Quiapo, Malate
generateTestHeatmapData ==
    <<<<1460420, 12098220, 80>>, <<1459950, 12098420, 60>>,
      <<1460870, 12096710, 90>>, <<1461220, 12098880, 40>>,
      <<1458950, 12097550, 70>>>>

\* data={createHeatmapData().length > 0 ? createHeatmapData() :
\* generateTestHeatmapData()}, in the render that returned heatmapPoints
HeatmapLayerData ==
    IF Len(heatmapPoints) > 0 THEN heatmapPoints ELSE generateTestHeatmapData

\* C28: the points handed to the heat-map layer are exactly the HeatCells computed
\* from the currently filtered records; when no record survives the filters the
\* layer receives no points.
C28_LayerShowsTheCells ==
    /\ HeatmapLayerData = createHeatmapData(reports, selectedCrimeTypeHeatmap,
                                            timeRange, now, intensity)
    /\ Survivors = {} => HeatmapLayerData = <<>>

-----------------------------------------------------------------------------
(* UserAccountManagement: the user list, Refresh and the Suspend buttons.
   A call of fetchUsers or handleSuspendUser runs to its await, the record
   store handles the request, and the call goes on when the answer arrives.
   The component orders neither the handling nor the answers, so any call at
   its await may be handled and may go on. No one else writes the accounts. *)

MaxUsers == 2      \* accounts in the record store
MaxCalls == 4      \* calls started in one run

UserKey(userId) == [t |-> "key", key |-> userId]
AdminEmail == JsString("admin@e-responde.com")
LoadFailedMessage == "Failed to load user data. Please try again."
UpdateFailedMessage == "Failed to update user status. Please try again."

\* Accounts as the civilian app and earlier sessions of this page left them
ActiveAccount ==
    [email |-> JsString("a@b.c"), firstName |-> JsString("Ana"),
     createdAt |-> JsDateString(0), isSuspended |-> JsUndefined,
     suspendedAt |-> JsUndefined, suspendedBy |-> JsUndefined]
SuspendedAccount ==
    [ActiveAccount EXCEPT !.isSuspended = JsBoolean(TRUE),
                          !.suspendedAt = JsDateString(0),
                          !.suspendedBy = AdminEmail]
UnnamedAccount ==
    [ActiveAccount EXCEPT !.firstName = JsUndefined, !.createdAt = JsUndefined]
AccountKinds == {ActiveAccount, SuspendedAccount, UnnamedAccount}

\* The entry fetchUsers pushes for one account (lines 34-42)
UserEntry(userId, userData) ==
    [id |-> userId,
     firstName |-> userData.firstName,
     email |-> userData.email,
     createdAt |-> OrElse(userData.createdAt, JsString("Unknown")),
     isSuspended |-> OrElse(userData.isSuspended, JsBoolean(FALSE)),
     suspendedAt |-> OrElse(userData.suspendedAt, JsNull),
     suspendedBy |-> OrElse(userData.suspendedBy, JsNull)]

\* Object.keys(civilianData).forEach(...): the accounts with an email and a
\* first name, in key order
RECURSIVE UserListFrom(_, _)
UserListFrom(civilianData, userId) ==
    IF userId > Len(civilianData) THEN <<>>
    ELSE LET userData == civilianData[userId]
             rest == UserListFrom(civilianData, userId + 1)
         IN  IF IsTruthy(userData.email) /\ IsTruthy(userData.firstName)
             THEN <<UserEntry(userId, userData)>> \o rest
             ELSE rest
UserList(civilianData) == UserListFrom(civilianData, 1)

\* const updates = {...} of handleSuspendUser, at the time `clock`
Updates(currentStatus, clock) ==
    [isSuspended |-> JsBoolean(~IsTruthy(currentStatus)),
     suspendedAt |-> IF ~IsTruthy(currentStatus) THEN JsDateString(clock) ELSE JsNull,
     suspendedBy |-> IF ~IsTruthy(currentStatus) THEN AdminEmail ELSE JsNull]

\* update(userRef, updates) at the store: a null value removes the field
AsStored(value) == IF value = JsNull THEN JsUndefined ELSE value
Merged(userData, updates) ==
    [userData EXCEPT !.isSuspended = AsStored(updates.isSuspended),
                     !.suspendedAt = AsStored(updates.suspendedAt),
                     !.suspendedBy = AsStored(updates.suspendedBy)]

\* prev.map(user => user.id === userId ? {...} : user)
WithStatus(prev, userId, updates) ==
    [k \in 1..Len(prev) |->
        IF prev[k].id = userId
        THEN [prev[k] EXCEPT !.isSuspended = updates.isSuspended,
                             !.suspendedAt = updates.suspendedAt,
                             !.suspendedBy = updates.suspendedBy]
        ELSE prev[k]]

Without(s, i) == [k \in 1..(Len(s) - 1) |-> IF k < i THEN s[k] ELSE s[k + 1]]
NoUpdates == [isSuspended |-> JsNull, suspendedAt |-> JsNull, suspendedBy |-> JsNull]
GetCall == [op |-> "get", userId |-> 0, updates |-> NoUpdates, stage |-> "sent",
            snapshot |-> <<>>]
UpdateCall(userId, updates) ==
    [op |-> "update", userId |-> userId, updates |-> updates, stage |-> "sent",
     snapshot |-> <<>>]
\* every call started before call i has been handled
OldestSent(i) == \A k \in 1..(i - 1) : calls[k].stage # "sent"

\* disabled={actionLoading === user.id}
ButtonDisabled(userId) == actionLoading = UserKey(userId)

\* The Refresh button (shown when not loading): fetchUsers up to its await
FetchUsers ==
    /\ ~loading
    /\ started < MaxCalls
    /\ loading' = TRUE
    /\ error' = ""
    /\ calls' = Append(calls, GetCall)
    /\ started' = started + 1
    /\ UNCHANGED <<users, totalUsers, actionLoading, accounts, inOrder, failures>>
    /\ UNCHANGED <<trendVars, heatVars, dailyVars, serviceVars, requestVars, halfUp, now>>

\* A user's action button (shown when not loading, enabled unless
\* actionLoading is that user): handleSuspendUser up to its await
HandleSuspendUser ==
    /\ ~loading
    /\ started < MaxCalls
    /\ \E k \in 1..Len(users) :
          /\ ~ButtonDisabled(users[k].id)
          /\ actionLoading' = UserKey(users[k].id)
          /\ calls' = Append(calls, UpdateCall(users[k].id,
                                 Updates(users[k].isSuspended, started + 1)))
    /\ error' = ""
    /\ started' = started + 1
    /\ UNCHANGED <<users, loading, totalUsers, accounts, inOrder, failures>>
    /\ UNCHANGED <<trendVars, heatVars, dailyVars, serviceVars, requestVars, halfUp, now>>

\* The store answers a get with the accounts as they are
StoreReads ==
    /\ \E i \in 1..Len(calls) :
          /\ calls[i].op = "get" /\ calls[i].stage = "sent"
          /\ calls' = [calls EXCEPT ![i].stage = "done", ![i].snapshot = accounts]
          /\ inOrder' = (inOrder /\ OldestSent(i))
    /\ UNCHANGED <<users, loading, error, totalUsers, actionLoading, accounts, started,
                   failures>>
    /\ UNCHANGED <<trendVars, heatVars, dailyVars, serviceVars, requestVars, halfUp, now>>

\* The store applies an update
StoreUpdates ==
    /\ \E i \in 1..Len(calls) :
          /\ calls[i].op = "update" /\ calls[i].stage = "sent"
          /\ accounts' = [accounts EXCEPT ![calls[i].userId] =
                                Merged(accounts[calls[i].userId], calls[i].updates)]
          /\ calls' = [calls EXCEPT ![i].stage = "done"]
          /\ inOrder' = (inOrder /\ OldestSent(i))
    /\ UNCHANGED <<users, loading, error, totalUsers, actionLoading, started, failures>>
    /\ UNCHANGED <<trendVars, heatVars, dailyVars, serviceVars, requestVars, halfUp, now>>

\* The store, or the way to it, fails a request: nothing is read or written
StoreRejects ==
    /\ \E i \in 1..Len(calls) :
          /\ calls[i].stage = "sent"
          /\ calls' = [calls EXCEPT ![i].stage = "failed"]
          /\ inOrder' = (inOrder /\ OldestSent(i))
    /\ UNCHANGED <<users, loading, error, totalUsers, actionLoading, accounts, started,
                   failures>>
    /\ UNCHANGED <<trendVars, heatVars, dailyVars, serviceVars, requestVars, halfUp, now>>

\* fetchUsers from its await to its end
FetchUsersSettles ==
    /\ \E i \in 1..Len(calls) :
          /\ calls[i].op = "get" /\ calls[i].stage # "sent"
          /\ IF calls[i].stage = "done"
             THEN \* snapshot.exists() is false of an empty node
                  /\ users' = UserList(calls[i].snapshot)
                  /\ totalUsers' = Len(UserList(calls[i].snapshot))
                  /\ UNCHANGED <<error, failures>>
             ELSE /\ error' = LoadFailedMessage
                  /\ failures' = TRUE
                  /\ UNCHANGED <<users, totalUsers>>
          /\ calls' = Without(calls, i)
          /\ inOrder' = (inOrder /\ i = 1)
    /\ loading' = FALSE
    /\ UNCHANGED <<actionLoading, accounts, started>>
    /\ UNCHANGED <<trendVars, heatVars, dailyVars, serviceVars, requestVars, halfUp, now>>

\* handleSuspendUser from its await to its end
HandleSuspendUserSettles ==
    /\ \E i \in 1..Len(calls) :
          /\ calls[i].op = "update" /\ calls[i].stage # "sent"
          /\ IF calls[i].stage = "done"
             THEN /\ users' = WithStatus(users, calls[i].userId, calls[i].updates)
                  /\ UNCHANGED <<error, failures>>
             ELSE /\ error' = UpdateFailedMessage
                  /\ failures' = TRUE
                  /\ UNCHANGED users
          /\ calls' = Without(calls, i)
          /\ inOrder' = (inOrder /\ i = 1)
    /\ actionLoading' = JsNull
    /\ UNCHANGED <<loading, totalUsers, accounts, started>>
    /\ UNCHANGED <<trendVars, heatVars, dailyVars, serviceVars, requestVars, halfUp, now>>

\* The page after its first render: the effect has called fetchUsers
InitAccounts ==
    /\ IdleTrend /\ IdleHeat /\ IdleClock /\ IdleDaily /\ IdleService /\ IdleRequest
    /\ halfUp = TRUE
    /\ users = <<>>
    /\ loading = TRUE
    /\ error = ""
    /\ totalUsers = 0
    /\ actionLoading = JsNull
    /\ accounts \in UNION {[1..n -> AccountKinds] : n \in 0..MaxUsers}
    /\ calls = <<GetCall>>
    /\ started = 1
    /\ inOrder = TRUE
    /\ failures = FALSE

NextAccounts ==
    \/ FetchUsers
    \/ HandleSuspendUser
    \/ StoreReads
    \/ StoreUpdates
    \/ StoreRejects
    \/ FetchUsersSettles
    \/ HandleSuspendUserSettles

SpecAccounts == InitAccounts /\ [][NextAccounts]_vars

-----------------------------------------------------------------------------
(* The claims about the user page *)

UpdatesInFlight == {i \in 1..Len(calls) : calls[i].op = "update"}

\* C29: while a suspend/unsuspend update for a user u is in flight, actionLoading
\* equals u, so u's button stays disabled and no second update for u can be
\* started, whatever updates are started for other users.
C29_BusyWhileInFlight ==
    /\ \A i \in UpdatesInFlight : ButtonDisabled(calls[i].userId)
    /\ \A i, j \in UpdatesInFlight : calls[i].userId = calls[j].userId => i = j

\* The suspension state shown for a listed user is the one the store holds
ShowsStored(user, store) ==
    /\ user.isSuspended = OrElse(store[user.id].isSuspended, JsBoolean(FALSE))
    /\ user.suspendedAt = OrElse(store[user.id].suspendedAt, JsNull)
    /\ user.suspendedBy = OrElse(store[user.id].suspendedBy, JsNull)
Settled == calls = <<>> /\ ~failures

\* C30: once every started fetchUsers and handleSuspendUser call has settled
\* without error, each listed user's isSuspended, suspendedAt and suspendedBy
\* equal the ones stored in the database, under every interleaving of refreshes
\* and toggles; and a handleSuspendUser call whose update fails leaves the user
\* list unchanged and sets the error message.
C30_ListShowsTheStore ==
    [][/\ Settled' => \A k \in 1..Len(users') : ShowsStored(users'[k], accounts')
       /\ (\E i \in UpdatesInFlight : calls[i].stage = "failed"
                                      /\ calls' = Without(calls, i))
             => users' = users /\ error' = UpdateFailedMessage]_vars

\* The same two statements for the runs in which the store has handled and
\* answered the calls oldest first
ListShowsTheStoreInOrder ==
    [][/\ (Settled' /\ inOrder') => \A k \in 1..Len(users') : ShowsStored(users'[k], accounts')
       /\ (\E i \in UpdatesInFlight : calls[i].stage = "failed"
                                      /\ calls' = Without(calls, i))
             => users' = users /\ error' = UpdateFailedMessage]_vars

====
